---- MODULE Spec2Model ----
(***************************************************************************)
(* A model of the Cosmos request pipeline of azure-sdk-for-rust:           *)
(*   sdk/core/src/context.rs                  the Context bag              *)
(*   sdk/cosmos/src/authorization_policy.rs   AuthorizationPolicy, signing *)
(*   sdk/cosmos/src/authentication_policy.rs  AuthenticationPolicy         *)
(*   sdk/cosmos/src/clients/cosmos_client.rs  CosmosClient, prepare_request*)
(*                                                                         *)
(* A Rust &str / String is modelled as the sequence of its UTF-8 bytes     *)
(* (integers 0..255), so that byte offsets, char boundaries, HMAC, base64  *)
(* and URL encoding are computed as the code computes them.                *)
(***************************************************************************)
EXTENDS Integers, Sequences, FiniteSets, TLC

VARIABLES
    chain,                \* Spec: the policies of the run, in calling order
    authorization_token,  \* Spec: the token the policies were built with
    request,              \* Spec: the Request (&mut Request) the policies are handed
    ctx,                  \* Spec: the Context (&mut Context) the policies are handed
    here,                 \* Spec: chain[here] is the policy whose send runs next
    pc,                   \* Spec: "ready", "sending", "returned" or "panicked"; SpecRetry and
                          \* SpecClient: also "sent", "validated" and "done"
    result,               \* Spec: what the run returned to its caller
    handed,               \* Spec: one record for each delegation by AuthorizationPolicy::send
    calls,                \* SpecBag: one record for each call made on the Context, in order
    client,               \* SpecClient: the CosmosClient (auth_token, cloud_location)
    attempts,             \* SpecRetry, SpecClient: one record for each attempt of Pipeline::send
    ops,                  \* SpecTwo: the state of each of two concurrent operations
    u,          \* SpecLink: the path handed to generate_resource_link
    link,       \* SpecLink: the outcome of generate_resource_link(u)
    args,       \* SpecSign: the arguments of string_to_sign / generate_authorization
    sts,        \* SpecSign: the value string_to_sign(args) returned
    signed      \* SpecSign: generate_authorization(args), with its locals

chainVars ==
    <<chain, authorization_token, request, ctx, here, pc, result, handed, calls, client, attempts,
      ops>>
linkVars == <<u, link>>
signVars == <<args, sts, signed>>
vars == <<chainVars, linkVars, signVars>>

(***************************************************************************)
(* Strings as bytes                                                        *)
(***************************************************************************)

\* the printable ASCII characters in code order: 32 (space) to 95 (_), and
\* 97 (a) to 126 (~); the backquote, 96, cannot be written in a string here
AsciiLow == " !\"#$%&'()*+,-./0123456789:;<=>?@ABCDEFGHIJKLMNOPQRSTUVWXYZ[\\]^_"
AsciiHigh == "abcdefghijklmnopqrstuvwxyz{|}~"

\* the byte of each one-character string
OrdTable ==
    [c \in {"\n"} |-> 10]
    @@ [c \in {SubSeq(AsciiLow, i, i) : i \in 1..Len(AsciiLow)} |->
           31 + CHOOSE i \in 1..Len(AsciiLow) : SubSeq(AsciiLow, i, i) = c]
    @@ [c \in {SubSeq(AsciiHigh, i, i) : i \in 1..Len(AsciiHigh)} |->
           96 + CHOOSE i \in 1..Len(AsciiHigh) : SubSeq(AsciiHigh, i, i) = c]
Ord(c) == OrdTable[c]

\* the UTF-8 bytes of an ASCII string literal
Str(s) == [i \in 1..Len(s) |-> Ord(SubSeq(s, i, i))] \o <<>>

\* outcomes of an operation that may panic; NoOutcome: it has not run
NoOutcome == [tag |-> "none"]
Ok(v) == [tag |-> "ok", v |-> v]
Panic(why) == [tag |-> "panic", why |-> why]
IsPanic(r) == r.tag = "panic"

\* str::is_char_boundary: offset i (0-based) of p does not fall inside a
\* multi-byte character (a byte 10xxxxxx is a continuation byte)
IsCharBoundary(p, i) ==
    \/ i = 0
    \/ i = Len(p)
    \/ (0 < i /\ i < Len(p) /\ (p[i + 1] < 128 \/ p[i + 1] >= 192))

\* &p[a..b] on a str: panics unless a <= b <= len and both are char boundaries
StrSlice(p, a, b) ==
    IF 0 <= a /\ a <= b /\ b <= Len(p) /\ IsCharBoundary(p, a) /\ IsCharBoundary(p, b)
    THEN Ok(SubSeq(p, a + 1, b))
    ELSE Panic("str slice index")

(***************************************************************************)
(* generate_resource_link                                                  *)
(***************************************************************************)

ENDING_STRINGS == <<Str("dbs"), Str("colls"), Str("docs"), Str("sprocs"), Str("users"),
                    Str("permissions"), Str("attachments"), Str("pkranges"), Str("udfs"),
                    Str("triggers")>>

\* one pass of the for loop, from the k-th ending string on
RECURSIVE ResourceLinkFrom(_, _)
ResourceLinkFrom(p, k) ==
    IF k > Len(ENDING_STRINGS) THEN Ok(p)
    ELSE
    LET str_to_match == ENDING_STRINGS[k]
        len == Len(p)
        end_len == Len(str_to_match)
        end_offset == len - end_len
        sm == StrSlice(p, end_offset, len)
    IN  IF end_len <= len
        THEN IF IsPanic(sm) THEN sm
             ELSE IF sm.v = str_to_match
             THEN IF len = end_len THEN Ok(<<>>)
                  ELSE IF end_offset - 1 < 0 THEN Panic("usize underflow")
                  ELSE LET sep == StrSlice(p, end_offset - 1, end_offset)
                       IN  IF IsPanic(sep) THEN sep
                           ELSE IF sep.v = Str("/")
                           THEN StrSlice(p, 0, len - end_len - 1)
                           ELSE ResourceLinkFrom(p, k + 1)
             ELSE ResourceLinkFrom(p, k + 1)
        ELSE ResourceLinkFrom(p, k + 1)

\* a faulty variant of generate_resource_link: the return for a path that is
\* a keyword and nothing else (len == end_len) is missing
RECURSIVE UnguardedLinkFrom(_, _)
UnguardedLinkFrom(p, k) ==
    IF k > Len(ENDING_STRINGS) THEN Ok(p)
    ELSE
    LET str_to_match == ENDING_STRINGS[k]
        len == Len(p)
        end_len == Len(str_to_match)
        end_offset == len - end_len
        sm == StrSlice(p, end_offset, len)
    IN  IF end_len <= len
        THEN IF IsPanic(sm) THEN sm
             ELSE IF sm.v = str_to_match
             THEN IF end_offset - 1 < 0 THEN Panic("usize underflow")
                  ELSE LET sep == StrSlice(p, end_offset - 1, end_offset)
                       IN  IF IsPanic(sep) THEN sep
                           ELSE IF sep.v = Str("/")
                           THEN StrSlice(p, 0, len - end_len - 1)
                           ELSE UnguardedLinkFrom(p, k + 1)
             ELSE UnguardedLinkFrom(p, k + 1)
        ELSE UnguardedLinkFrom(p, k + 1)
UnguardedLink(p) == UnguardedLinkFrom(p, 1)

generate_resource_link(p) == ResourceLinkFrom(p, 1)

(***************************************************************************)
(* HMAC-SHA256 (ring::hmac), base64 (base64::encode) and                   *)
(* application/x-www-form-urlencoded (url::form_urlencoded), computed on   *)
(* bytes.  A 32-bit word is a pair <<hi, lo>> of 16-bit halves, so that no *)
(* intermediate value exceeds 31 bits.                                     *)
(***************************************************************************)

Pow2 == <<1, 2, 4, 8, 16, 32, 64, 128, 256, 512, 1024, 2048, 4096, 8192, 16384, 32768, 65536>>

\* And4[16 * a + b + 1] is the bitwise AND of the 4-bit values a and b
And4 == <<0, 0, 0, 0, 0, 0, 0, 0, 0, 0, 0, 0, 0, 0, 0, 0, 0, 1, 0, 1, 0, 1, 0, 1, 0, 1, 0, 1, 0, 1, 0, 1,
          0, 0, 2, 2, 0, 0, 2, 2, 0, 0, 2, 2, 0, 0, 2, 2, 0, 1, 2, 3, 0, 1, 2, 3, 0, 1, 2, 3, 0, 1, 2, 3,
          0, 0, 0, 0, 4, 4, 4, 4, 0, 0, 0, 0, 4, 4, 4, 4, 0, 1, 0, 1, 4, 5, 4, 5, 0, 1, 0, 1, 4, 5, 4, 5,
          0, 0, 2, 2, 4, 4, 6, 6, 0, 0, 2, 2, 4, 4, 6, 6, 0, 1, 2, 3, 4, 5, 6, 7, 0, 1, 2, 3, 4, 5, 6, 7,
          0, 0, 0, 0, 0, 0, 0, 0, 8, 8, 8, 8, 8, 8, 8, 8, 0, 1, 0, 1, 0, 1, 0, 1, 8, 9, 8, 9, 8, 9, 8, 9,
          0, 0, 2, 2, 0, 0, 2, 2, 8, 8, 10, 10, 8, 8, 10, 10, 0, 1, 2, 3, 0, 1, 2, 3, 8, 9, 10, 11, 8, 9, 10, 11,
          0, 0, 0, 0, 4, 4, 4, 4, 8, 8, 8, 8, 12, 12, 12, 12, 0, 1, 0, 1, 4, 5, 4, 5, 8, 9, 8, 9, 12, 13, 12, 13,
          0, 0, 2, 2, 4, 4, 6, 6, 8, 8, 10, 10, 12, 12, 14, 14, 0, 1, 2, 3, 4, 5, 6, 7, 8, 9, 10, 11, 12, 13, 14, 15>>

And16(a, b) ==
      And4[(a \div 4096) * 16 + (b \div 4096) + 1] * 4096
    + And4[((a \div 256) % 16) * 16 + ((b \div 256) % 16) + 1] * 256
    + And4[((a \div 16) % 16) * 16 + ((b \div 16) % 16) + 1] * 16
    + And4[(a % 16) * 16 + (b % 16) + 1]
Xor16(a, b) == a + b - 2 * And16(a, b)

WXor(x, y) == <<Xor16(x[1], y[1]), Xor16(x[2], y[2])>>
WXor3(x, y, z) == WXor(WXor(x, y), z)
\* rotate / shift a word right by n bits, 0 < n < 32
Rotr(x, n) ==
    LET a == IF n >= 16 THEN x[2] ELSE x[1]
        b == IF n >= 16 THEN x[1] ELSE x[2]
        m == n % 16
        p == Pow2[m + 1]
        q == Pow2[17 - m]
    IN  <<(a \div p) + (b % p) * q, (b \div p) + (a % p) * q>>
Shr(x, n) ==
    IF n >= 16 THEN <<0, x[1] \div Pow2[n - 15]>>
    ELSE <<x[1] \div Pow2[n + 1], (x[2] \div Pow2[n + 1]) + (x[1] % Pow2[n + 1]) * Pow2[17 - n]>>
\* Ch(e, f, g) = (e AND f) XOR (NOT e AND g): the two terms share no bit
Ch(e, f, g) == <<And16(e[1], f[1]) + And16(65535 - e[1], g[1]),
                 And16(e[2], f[2]) + And16(65535 - e[2], g[2])>>
\* Maj(a, b, c) = (a AND b) XOR (a AND c) XOR (b AND c) = (a AND b) + (c AND (a XOR b))
Maj(a, b, c) == <<And16(a[1], b[1]) + And16(c[1], Xor16(a[1], b[1])),
                  And16(a[2], b[2]) + And16(c[2], Xor16(a[2], b[2]))>>
BigSigma0(a) == WXor3(Rotr(a, 2), Rotr(a, 13), Rotr(a, 22))
BigSigma1(e) == WXor3(Rotr(e, 6), Rotr(e, 11), Rotr(e, 25))
SmallSigma0(w) == WXor3(Rotr(w, 7), Rotr(w, 18), Shr(w, 3))
SmallSigma1(w) == WXor3(Rotr(w, 17), Rotr(w, 19), Shr(w, 10))

\* the sum modulo 2^32 of up to five words
RECURSIVE SumHalf(_, _, _)
SumHalf(ws, h, k) == IF k = 0 THEN 0 ELSE ws[k][h] + SumHalf(ws, h, k - 1)
AddWords(ws) ==
    LET lo == SumHalf(ws, 2, Len(ws))
        hi == SumHalf(ws, 1, Len(ws)) + (lo \div 65536)
    IN  <<hi % 65536, lo % 65536>>

\* SHA-256 round constants and initial hash value (FIPS 180-4)
K256 == <<<<17034, 12184>>, <<28983, 17553>>, <<46528, 64463>>, <<59829, 56229>>, <<14678, 49755>>, <<23025, 4593>>,
          <<37439, 33444>>, <<43804, 24277>>, <<55303, 43672>>, <<4739, 23297>>, <<9265, 34238>>, <<21772, 32195>>,
          <<29374, 23924>>, <<32990, 45566>>, <<39900, 1703>>, <<49563, 61812>>, <<58523, 27073>>, <<61374, 18310>>,
          <<4033, 40390>>, <<9228, 41420>>, <<11753, 11375>>, <<19060, 33962>>, <<23728, 43484>>, <<30457, 35034>>,
          <<38974, 20818>>, <<43057, 50797>>, <<45059, 10184>>, <<48985, 32711>>, <<50912, 3059>>, <<54695, 37191>>,
          <<1738, 25425>>, <<5161, 10599>>, <<10167, 2693>>, <<11803, 8504>>, <<19756, 28156>>, <<21304, 3347>>,
          <<25866, 29524>>, <<30314, 2747>>, <<33218, 51502>>, <<37490, 11397>>, <<41663, 59553>>, <<43034, 26187>>,
          <<49739, 35696>>, <<51052, 20899>>, <<53650, 59417>>, <<54937, 1572>>, <<62478, 13701>>, <<4202, 41072>>,
          <<6564, 49430>>, <<7735, 27656>>, <<10056, 30540>>, <<13488, 48309>>, <<14620, 3251>>, <<20184, 43594>>,
          <<23452, 51791>>, <<26670, 28659>>, <<29839, 33518>>, <<30885, 25455>>, <<33992, 30740>>, <<36039, 520>>,
          <<37054, 65530>>, <<42064, 27883>>, <<48889, 41975>>, <<50801, 30962>>>>
H256 == <<<<27145, 58983>>, <<47975, 44677>>, <<15470, 62322>>, <<42319, 62778>>,
          <<20750, 21119>>, <<39685, 26764>>, <<8067, 55723>>, <<23520, 52505>>>>

\* the message schedule W[1..64], extended from W[1..16] (lo..hi are the
\* indexes still to add; halving keeps the evaluation shallow)
RECURSIVE Schedule(_, _, _)
ScheduleFrom(w, lo, hi) == IF Len(w) = lo - 1 THEN Schedule(w, lo, hi) ELSE <<>>
Schedule(w, lo, hi) ==
    IF lo = hi
    THEN Append(w, AddWords(<<SmallSigma1(w[lo - 2]), w[lo - 7],
                              SmallSigma0(w[lo - 15]), w[lo - 16]>>))
    ELSE ScheduleFrom(Schedule(w, lo, (lo + hi) \div 2), (lo + hi) \div 2 + 1, hi)

\* one round on the working variables s = <<a, b, c, d, e, f, g, h>>
RoundStep(s, t1, t2) ==
    <<AddWords(<<t1, t2>>), s[1], s[2], s[3], AddWords(<<s[4], t1>>), s[5], s[6], s[7]>>
Round(s, k, w) ==
    RoundStep(s, AddWords(<<s[8], BigSigma1(s[5]), Ch(s[5], s[6], s[7]), k, w>>),
                 AddWords(<<BigSigma0(s[1]), Maj(s[1], s[2], s[3])>>))

\* rounds lo..hi (halving keeps the evaluation shallow)
RECURSIVE Rounds(_, _, _, _)
RoundsFrom(s, w, lo, hi) == IF Len(s) = 8 THEN Rounds(s, w, lo, hi) ELSE <<>>
Rounds(s, w, lo, hi) ==
    IF lo = hi
    THEN Round(s, K256[lo], w[lo])
    ELSE RoundsFrom(Rounds(s, w, lo, (lo + hi) \div 2), w, (lo + hi) \div 2 + 1, hi)

\* the 16 big-endian words of a 64-byte block
BlockWords(b) == [i \in 1..16 |-> <<b[4 * i - 3] * 256 + b[4 * i - 2],
                                     b[4 * i - 1] * 256 + b[4 * i]>>] \o <<>>
AddState(h, s) == [i \in 1..8 |-> AddWords(<<h[i], s[i]>>)] \o <<>>
Compress(h, b) == AddState(h, Rounds(h, Schedule(BlockWords(b), 17, 64), 1, 64))

Zeros(n) == [i \in 1..n |-> 0] \o <<>>
\* the message followed by 0x80, zeros and its bit length in 64 bits
Sha256Pad(m) ==
    LET bits == 8 * Len(m)
    IN  m \o <<128>> \o Zeros((55 - Len(m)) % 64)
          \o <<0, 0, 0, 0, (bits \div 16777216) % 256, (bits \div 65536) % 256,
               (bits \div 256) % 256, bits % 256>>
RECURSIVE Sha256Blocks(_, _, _)
Sha256BlocksFrom(h, m, k) == IF Len(h) = 8 THEN Sha256Blocks(h, m, k) ELSE <<>>
Sha256Blocks(h, m, k) ==
    IF 64 * k >= Len(m) THEN h
    ELSE Sha256BlocksFrom(Compress(h, SubSeq(m, 64 * k + 1, 64 * k + 64)), m, k + 1)
\* the 32 bytes of the eight words h, big-endian
WordsBytes(h) ==
    [i \in 1..32 |-> IF i % 2 = 1
                     THEN h[(i + 3) \div 4][IF (i - 1) % 4 < 2 THEN 1 ELSE 2] \div 256
                     ELSE h[(i + 3) \div 4][IF (i - 1) % 4 < 2 THEN 1 ELSE 2] % 256] \o <<>>
Sha256(m) == WordsBytes(Sha256Blocks(H256, Sha256Pad(m), 0))

\* hmac::sign(&hmac::Key::new(HMAC_SHA256, key), msg) (RFC 2104): the key is
\* hashed when longer than a block, padded with zeros, and XORed with 0x36
\* (inner) and 0x5c (outer)
ZeroPad(k) == k \o Zeros(64 - Len(k))
XorPad(k, c) == [i \in 1..64 |-> Xor16(k[i], c)] \o <<>>
HmacBlock(k, msg) == Sha256(XorPad(k, 92) \o Sha256(XorPad(k, 54) \o msg))
HmacSha256(key, msg) == HmacBlock(ZeroPad(IF Len(key) > 64 THEN Sha256(key) ELSE key), msg)

\* base64::encode: the standard alphabet, padded with '='
Base64Alphabet == Str("ABCDEFGHIJKLMNOPQRSTUVWXYZabcdefghijklmnopqrstuvwxyz0123456789+/")
Base64Encode(b) ==
    LET n == Len(b)
        at(i) == IF i <= n THEN b[i] ELSE 0
    IN  [j \in 1..(4 * ((n + 2) \div 3)) |->
            LET g == (j - 1) \div 4
                pos == (j - 1) % 4
                v == at(3 * g + 1) * 65536 + at(3 * g + 2) * 256 + at(3 * g + 3)
            IN  IF pos >= 2 /\ 3 * g + pos > n THEN Ord("=")
                ELSE Base64Alphabet[((v \div <<262144, 4096, 64, 1>>[pos + 1]) % 64) + 1]] \o <<>>

\* base64::decode of a well-formed padded text (used for the account key)
Base64Value(c) == (CHOOSE i \in 1..64 : Base64Alphabet[i] = c) - 1
Base64Decode(t) ==
    LET pad == IF Len(t) > 0 /\ t[Len(t)] = Ord("=")
               THEN IF Len(t) > 1 /\ t[Len(t) - 1] = Ord("=") THEN 2 ELSE 1
               ELSE 0
        val(i) == IF t[i] = Ord("=") THEN 0 ELSE Base64Value(t[i])
    IN  [j \in 1..(3 * (Len(t) \div 4) - pad) |->
            LET g == (j - 1) \div 3
                pos == (j - 1) % 3
                hi == val(4 * g + 1) * 64 + val(4 * g + 2)
                lo == val(4 * g + 3) * 64 + val(4 * g + 4)
            IN  IF pos = 0 THEN hi \div 16
                ELSE IF pos = 1 THEN (hi % 16) * 16 + (lo \div 256)
                ELSE lo % 256] \o <<>>

IsAsciiDigit(c) == 48 <= c /\ c <= 57
IsAsciiUpper(c) == 65 <= c /\ c <= 90
IsAsciiLower(c) == 97 <= c /\ c <= 122
HexDigits == Str("0123456789ABCDEF")

\* a faulty variant of SerializeByte: percent-encoding that writes a space as
\* %20, as utf8_percent_encode does
PercentEncodeByte(c) ==
    IF c = Ord("*") \/ c = Ord("-") \/ c = Ord(".") \/ c = Ord("_")
       \/ IsAsciiDigit(c) \/ IsAsciiUpper(c) \/ IsAsciiLower(c)
    THEN <<c>>
    ELSE <<Ord("%"), HexDigits[(c \div 16) + 1], HexDigits[(c % 16) + 1]>>

\* form_urlencoded::byte_serialize, one byte: *-._ and ASCII alphanumerics are
\* kept, a space becomes '+', every other byte becomes %XX (upper-case hex)
SerializeByte(c) ==
    IF c = Ord("*") \/ c = Ord("-") \/ c = Ord(".") \/ c = Ord("_")
       \/ IsAsciiDigit(c) \/ IsAsciiUpper(c) \/ IsAsciiLower(c)
    THEN <<c>>
    ELSE IF c = Ord(" ") THEN <<Ord("+")>>
    ELSE <<Ord("%"), HexDigits[(c \div 16) + 1], HexDigits[(c % 16) + 1]>>

\* the concatenation of SerializeByte over b[lo..hi]
RECURSIVE SerializeRange(_, _, _)
SerializeRange(b, lo, hi) ==
    IF lo > hi THEN <<>>
    ELSE IF lo = hi THEN SerializeByte(b[lo])
    ELSE SerializeRange(b, lo, (lo + hi) \div 2) \o SerializeRange(b, (lo + hi) \div 2 + 1, hi)
byte_serialize(b) == SerializeRange(b, 1, Len(b))

\* form_urlencoded::parse of one value: %XX (two hex digits) is the byte XX,
\* + is a space, every other byte is itself
IsHexDigit(c) == IsAsciiDigit(c) \/ (65 <= c /\ c <= 70) \/ (97 <= c /\ c <= 102)
HexValue(c) == IF IsAsciiDigit(c) THEN c - 48 ELSE IF c >= 97 THEN c - 87 ELSE c - 55
IsEscapeAt(s, i) ==
    i >= 1 /\ i + 2 <= Len(s) /\ s[i] = Ord("%") /\ IsHexDigit(s[i + 1]) /\ IsHexDigit(s[i + 2])
DecodeAt(s, i) ==
    IF IsEscapeAt(s, i) THEN <<16 * HexValue(s[i + 1]) + HexValue(s[i + 2])>>
    ELSE IF IsEscapeAt(s, i - 1) \/ IsEscapeAt(s, i - 2) THEN <<>>
    ELSE IF s[i] = Ord("+") THEN <<Ord(" ")>>
    ELSE <<s[i]>>
RECURSIVE DecodeRange(_, _, _)
DecodeRange(s, lo, hi) ==
    IF lo > hi THEN <<>>
    ELSE IF lo = hi THEN DecodeAt(s, lo)
    ELSE DecodeRange(s, lo, (lo + hi) \div 2) \o DecodeRange(s, (lo + hi) \div 2 + 1, hi)
FormUrlDecode(s) == DecodeRange(s, 1, Len(s))

\* str::to_lowercase on ASCII text
ToLowercase(s) == [i \in 1..Len(s) |-> IF IsAsciiUpper(s[i]) THEN s[i] + 32 ELSE s[i]] \o <<>>

(***************************************************************************)
(* The timestamp: chrono::Utc::now().format(TIME_FORMAT)                   *)
(***************************************************************************)

DayNames == <<Str("Sun"), Str("Mon"), Str("Tue"), Str("Wed"), Str("Thu"), Str("Fri"), Str("Sat")>>
MonthNames == <<Str("Jan"), Str("Feb"), Str("Mar"), Str("Apr"), Str("May"), Str("Jun"),
                Str("Jul"), Str("Aug"), Str("Sep"), Str("Oct"), Str("Nov"), Str("Dec")>>

\* the day of the week of a Gregorian date, 0 = Sunday
Weekday(year, month, day) ==
    LET y == IF month < 3 THEN year - 1 ELSE year
        t == <<0, 3, 2, 5, 0, 3, 5, 1, 4, 6, 2, 4>>
    IN  (y + (y \div 4) - (y \div 100) + (y \div 400) + t[month] + day) % 7

Dec2(n) == <<Ord("0") + (n \div 10), Ord("0") + (n % 10)>>
Dec4(n) == Dec2(n \div 100) \o Dec2(n % 100)

\* TIME_FORMAT == "%a, %d %h %Y %T GMT" applied to a UTC date and time
FormatTime(dt) ==
    DayNames[Weekday(dt.year, dt.month, dt.day) + 1] \o Str(", ") \o Dec2(dt.day) \o Str(" ")
      \o MonthNames[dt.month] \o Str(" ") \o Dec4(dt.year) \o Str(" ")
      \o Dec2(dt.hour) \o Str(":") \o Dec2(dt.minute) \o Str(":") \o Dec2(dt.second)
      \o Str(" GMT")

\* the two instants of the tests: 1900-01-01T01:00:00Z and 2017-04-27T00:51:12Z
TestTime00 == [year |-> 1900, month |-> 1, day |-> 1, hour |-> 1, minute |-> 0, second |-> 0]
TestTime01 == [year |-> 2017, month |-> 4, day |-> 27, hour |-> 0, minute |-> 51, second |-> 12]
Instants == {TestTime00, TestTime01}

AZURE_VERSION == Str("2018-12-31")
VERSION == Str("1.0")

(***************************************************************************)
(* string_to_sign, encode_str_to_sign, generate_authorization              *)
(***************************************************************************)

\* http::Method, by its name; a name that is none of the nine standard ones is
\* an extension method
GET == Str("GET")
POST == Str("POST")
StandardMethods == {GET, Str("PUT"), POST, Str("DELETE"), Str("HEAD"), Str("TRACE"),
                    Str("OPTIONS"), Str("CONNECT"), Str("PATCH")}

ResourceTypes == {"Databases", "Collections", "Documents", "StoredProcedures", "Users",
                  "Permissions", "Attachments", "PartitionKeyRanges", "UserDefinedFunctions",
                  "Triggers"}

\* the first match of string_to_sign: the verb
MethodLine(http_method) ==
    CASE http_method = GET -> Str("get")
      [] http_method = Str("PUT") -> Str("put")
      [] http_method = POST -> Str("post")
      [] http_method = Str("DELETE") -> Str("delete")
      [] http_method = Str("HEAD") -> Str("head")
      [] http_method = Str("TRACE") -> Str("trace")
      [] http_method = Str("OPTIONS") -> Str("options")
      [] http_method = Str("CONNECT") -> Str("connect")
      [] http_method = Str("PATCH") -> Str("patch")
      [] OTHER -> Str("extension")

\* the second match of string_to_sign: the resource type
ResourceTypeLine(rt) ==
    CASE rt = "Databases" -> Str("dbs")
      [] rt = "Collections" -> Str("colls")
      [] rt = "Documents" -> Str("docs")
      [] rt = "StoredProcedures" -> Str("sprocs")
      [] rt = "Users" -> Str("users")
      [] rt = "Permissions" -> Str("permissions")
      [] rt = "Attachments" -> Str("attachments")
      [] rt = "PartitionKeyRanges" -> Str("pkranges")
      [] rt = "UserDefinedFunctions" -> Str("udfs")
      [] rt = "Triggers" -> Str("triggers")

\* format!("{}\n{}\n{}\n{}\n\n", verb, resource type, resource_link, time.to_lowercase())
string_to_sign(http_method, rt, resource_link, time) ==
    MethodLine(http_method) \o Str("\n") \o ResourceTypeLine(rt) \o Str("\n")
      \o resource_link \o Str("\n") \o ToLowercase(time) \o Str("\n\n")

\* a faulty variant of encode_str_to_sign: key and message exchanged
encode_key_as_message(str_to_sign, key) == Base64Encode(HmacSha256(str_to_sign, key))

encode_str_to_sign(str_to_sign, key) == Base64Encode(HmacSha256(key, str_to_sign))

\* AuthorizationToken::Primary(key bytes) and AuthorizationToken::Resource(token)
Primary(key) == [kind |-> "Primary", key |-> key]
Resource(token) == [kind |-> "Resource", key |-> token]

\* a faulty variant of StrUnencoded: the signature is computed for a resource
\* token as it is for a primary key
StrUnencodedAlwaysSigned(auth_token, to_sign) ==
    Str("type=") \o (IF auth_token.kind = "Primary" THEN Str("master") ELSE Str("resource"))
      \o Str("&ver=") \o VERSION \o Str("&sig=")
      \o encode_str_to_sign(to_sign, auth_token.key)

\* format!("type={}&ver={}&sig={}", ...): the descriptor before encoding
StrUnencoded(auth_token, to_sign) ==
    Str("type=") \o (IF auth_token.kind = "Primary" THEN Str("master") ELSE Str("resource"))
      \o Str("&ver=") \o VERSION \o Str("&sig=")
      \o (IF auth_token.kind = "Primary"
          THEN encode_str_to_sign(to_sign, auth_token.key)
          ELSE auth_token.key)

\* generate_authorization with its locals: .ret is the value it returns
AuthorizationOf(to_sign, str_unencoded) ==
    [string_to_sign |-> to_sign,
     str_unencoded |-> str_unencoded,
     ret |-> byte_serialize(str_unencoded)]
SignWith(auth_token, to_sign) == AuthorizationOf(to_sign, StrUnencoded(auth_token, to_sign))
generate_authorization(auth_token, http_method, resource_type, resource_link, time) ==
    SignWith(auth_token, string_to_sign(http_method, resource_type, resource_link, time))

(***************************************************************************)
(* Context (sdk/core/src/context.rs): the bag maps a key to a type-erased  *)
(* value; a value is a record of its concrete type and its content, None   *)
(* stands for Option::None.                                                *)
(***************************************************************************)

None == [type |-> "None"]
BagValue(type, v) == [type |-> type, v |-> v]

\* the keys a caller or a policy uses
BagKeys == {"resource_type", "request_id"}

\* Context::new(): an empty bag
Context_new == [k \in BagKeys |-> None]

\* Context::get_from_bag
get_from_bag(c, k) == c[k]

\* an insert that rebuilds the bag with the one key (the other keys are lost)
InsertAlone(c, k, v) == [j \in BagKeys |-> IF j = k THEN v ELSE None]

\* Context::insert_into_bag: the bag afterwards (HashMap::insert)
insert_into_bag(c, k, v) == [c EXCEPT ![k] = v]

\* Context::insert_into_bag: the value returned, which is what HashMap::insert
\* returns: the value the key held, None when it held none
Replaced(c, k) == c[k]

(***************************************************************************)
(* Request: method, URI and header multimap (http::HeaderMap keeps the     *)
(* values of a name in insertion order)                                    *)
(***************************************************************************)

HEADER_DATE == "x-ms-date"
HEADER_VERSION == "x-ms-version"
AUTHORIZATION == "authorization"

\* a faulty variant of HeadersRemove: the header map is cleared
HeadersClear(headers, name) == <<>>

\* HeaderMap::remove(name): every value stored under the name goes
HeadersRemove(headers, name) == SelectSeq(headers, LAMBDA h : h[1] # name)

\* HeaderMap::append(name, value): the value is added, existing ones stay
HeadersAppend(headers, name, value) == Append(headers, <<name, value>>)

\* the values stored under a name
HeaderValues(headers, name) == SelectSeq(headers, LAMBDA h : h[1] = name)

\* HeaderValue::from_str accepts a tab and the bytes 32..255 other than 127
IsValidHeaderValue(s) == \A i \in 1..Len(s) : s[i] = 9 \/ (s[i] >= 32 /\ s[i] # 127)

\* the first index from i on where s holds one of the bytes cs, or Len(s) + 1
RECURSIVE IndexOfAny(_, _, _)
IndexOfAny(s, cs, i) ==
    IF i > Len(s) \/ s[i] \in cs THEN i ELSE IndexOfAny(s, cs, i + 1)

\* the first index where s holds the text t, or 0
IndexOfText(s, t) ==
    IF \E i \in 1..(Len(s) - Len(t) + 1) : SubSeq(s, i, i + Len(t) - 1) = t
    THEN CHOOSE i \in 1..(Len(s) - Len(t) + 1) :
            /\ SubSeq(s, i, i + Len(t) - 1) = t
            /\ \A j \in 1..(i - 1) : SubSeq(s, j, j + Len(t) - 1) # t
    ELSE 0

\* a URI without its fragment
WithoutFragment(uri) == SubSeq(uri, 1, IndexOfAny(uri, {Ord("#")}, 1) - 1)

\* what follows the authority of an absolute URI, from the first / or ? on
AfterAuthority(rest) == SubSeq(rest, IndexOfAny(rest, {Ord("/"), Ord("?")}, 1), Len(rest))

\* http::Uri::path_and_query(): None for a URI in authority form (no scheme,
\* no leading slash), else the path and the query
PathAndQueryOf(uri, scheme_at) ==
    IF uri # <<>> /\ (uri[1] = Ord("/") \/ uri = Str("*")) THEN Ok(uri)
    ELSE IF scheme_at > 0 THEN Ok(AfterAuthority(SubSeq(uri, scheme_at + 3, Len(uri))))
    ELSE None
path_and_query(uri) == PathAndQueryOf(WithoutFragment(uri), IndexOfText(WithoutFragment(uri), Str("://")))

\* PathAndQuery's Display: an empty path prints as "/", and a path that does
\* not start with / or * gets a leading /
PathAndQueryToString(pq) ==
    IF pq = <<>> THEN Str("/")
    ELSE IF pq[1] = Ord("/") \/ pq[1] = Ord("*") THEN pq
    ELSE Str("/") \o pq

(***************************************************************************)
(* AuthorizationPolicy::send and AuthenticationPolicy::send, up to the     *)
(* call of next[0].send: what the call returns, or that it delegates, and  *)
(* the request as it leaves it                                             *)
(***************************************************************************)

AuthorizationPolicy(token) == [policy |-> "AuthorizationPolicy", authorization_token |-> token]
AuthenticationPolicy(token) == [policy |-> "AuthenticationPolicy", authorization_token |-> token]

\* Err(PipelineError::InvalidTailPolicy(Box::new(self.clone())))
InvalidTailPolicy(self) == [tag |-> "err", error |-> "InvalidTailPolicy", policy |-> self]
\* the error of HeaderValue::from_str, returned by the ? operator
InvalidHeaderValue == [tag |-> "err", error |-> "InvalidHeaderValue"]

Returned(r, req) == [outcome |-> r, request |-> req, delegate |-> FALSE]
Delegated(req) == [outcome |-> NoOutcome, request |-> req, delegate |-> TRUE]

\* next.is_empty()
is_empty(next) == Len(next) = 0

\* a faulty variant of ResourceTypeOf: a missing or wrongly typed item is
\* replaced by a default instead of ending the call
ResourceTypeOrDefault(c) ==
    IF get_from_bag(c, "resource_type").type # "ResourceType"
    THEN Ok("Databases")
    ELSE Ok(get_from_bag(c, "resource_type").v)

\* the bag item resource_type, with its two expect()s
ResourceTypeOf(c) ==
    IF get_from_bag(c, "resource_type") = None
    THEN Panic("SDK bug: bag item resource_type must be set before starting the pipeline")
    ELSE IF get_from_bag(c, "resource_type").type # "ResourceType"
    THEN Panic("SDK bug: bag item called resource_type must be of type ResourceType")
    ELSE Ok(get_from_bag(c, "resource_type").v)

\* &request.uri().path_and_query().unwrap().to_string()[1..]
UriPathFrom(s) == StrSlice(s, 1, Len(s))
UnwrapToUriPath(pq) ==
    IF pq = None THEN Panic("called Option::unwrap() on a None value")
    ELSE UriPathFrom(PathAndQueryToString(pq.v))
UriPathOf(uri) == UnwrapToUriPath(path_and_query(uri))

\* a faulty variant of RemoveSignedHeaders: nothing is removed
KeepHeaders(headers) == headers

\* the three remove calls
RemoveSignedHeaders(headers) ==
    HeadersRemove(HeadersRemove(HeadersRemove(headers, HEADER_DATE), HEADER_VERSION), AUTHORIZATION)

\* the three append calls on the headers left by the removes; a value that
\* HeaderValue::from_str rejects ends the call with the headers changed so far
AppendSignedHeaders(req, removed, time, auth) ==
    IF ~IsValidHeaderValue(time)
    THEN Returned(InvalidHeaderValue, [req EXCEPT !.headers = removed])
    ELSE IF ~IsValidHeaderValue(auth)
    THEN Returned(InvalidHeaderValue,
                  [req EXCEPT !.headers = HeadersAppend(HeadersAppend(removed, HEADER_DATE, time),
                                                        HEADER_VERSION, AZURE_VERSION)])
    ELSE Delegated([req EXCEPT !.headers =
                       HeadersAppend(HeadersAppend(HeadersAppend(removed, HEADER_DATE, time),
                                                   HEADER_VERSION, AZURE_VERSION),
                                     AUTHORIZATION, auth)])
SetSignedHeaders(req, time, auth) ==
    AppendSignedHeaders(req, RemoveSignedHeaders(req.headers), time, auth)

\* a faulty variant of SignWithLink: the signature is computed for the verb
\* GET whatever the method of the request
SignWithLinkAsGet(self, req, resource_type, time, resource_link) ==
    IF IsPanic(resource_link) THEN Returned(resource_link, req)
    ELSE SetSignedHeaders(req, time,
            generate_authorization(self.authorization_token, GET, resource_type,
                                   resource_link.v, time).ret)

\* the block computing auth, then the headers
SignWithLink(self, req, resource_type, time, resource_link) ==
    IF IsPanic(resource_link) THEN Returned(resource_link, req)
    ELSE SetSignedHeaders(req, time,
            generate_authorization(self.authorization_token, req.method, resource_type,
                                   resource_link.v, time).ret)
SignWithPath(self, req, resource_type, time, uri_path) ==
    IF IsPanic(resource_type) THEN Returned(resource_type, req)
    ELSE IF IsPanic(uri_path) THEN Returned(uri_path, req)
    ELSE SignWithLink(self, req, resource_type.v, time, generate_resource_link(uri_path.v))

\* a faulty variant of AuthorizationPolicy::send: the bag is read before next
\* is looked at
SendReadingBagFirst(self, c, req, next, now) ==
    IF IsPanic(ResourceTypeOf(c)) THEN Returned(ResourceTypeOf(c), req)
    ELSE IF is_empty(next) THEN Returned(InvalidTailPolicy(self), req)
    ELSE SignWithPath(self, req, ResourceTypeOf(c), FormatTime(now), UriPathOf(req.uri))

\* a faulty variant of AuthorizationPolicy::send: the signed headers are
\* removed before next is looked at
SendRemovingHeadersFirst(self, c, req, next, now) ==
    IF is_empty(next)
    THEN Returned(InvalidTailPolicy(self),
                  [req EXCEPT !.headers = RemoveSignedHeaders(req.headers)])
    ELSE SignWithPath(self, req, ResourceTypeOf(c), FormatTime(now), UriPathOf(req.uri))

\* a faulty variant of AuthorizationPolicy::send: a request that already
\* carries a date is signed with that date, and the date header is kept
SendReusingDate(self, c, req, next, now) ==
    IF is_empty(next)
    THEN Returned(InvalidTailPolicy(self), req)
    ELSE SignWithPath(self, req, ResourceTypeOf(c),
                      IF HeaderValues(req.headers, HEADER_DATE) # <<>>
                      THEN HeaderValues(req.headers, HEADER_DATE)[1][2]
                      ELSE FormatTime(now),
                      UriPathOf(req.uri))

\* AuthorizationPolicy::send(self, ctx, request, next) at the instant now
AuthorizationPolicySendOutcome(self, c, req, next, now) ==
    IF is_empty(next)
    THEN Returned(InvalidTailPolicy(self), req)
    ELSE SignWithPath(self, req, ResourceTypeOf(c), FormatTime(now), UriPathOf(req.uri))

\* AuthenticationPolicy::send(self, ctx, request, next): next[0] is indexed
\* and next.is_empty() is never tested
AuthenticationPolicySendOutcome(self, c, req, next) ==
    IF Len(next) = 0
    THEN Returned(Panic("index out of bounds: the len is 0 but the index is 0"), req)
    ELSE Delegated(req)

(***************************************************************************)
(* CosmosClient: prepare_request, prepare_request2                         *)
(***************************************************************************)

\* CloudLocation::Public(account).url()
PublicUrl(account) == Str("https://") \o account \o Str(".documents.azure.com")

\* RequestBuilder::new().method(..).uri(..).header(..) x 3
prepare_request_with_signature(cloud_url, uri_path, http_method, time, signature) ==
    [method |-> http_method,
     uri |-> cloud_url \o Str("/") \o uri_path,
     headers |-> <<<<HEADER_DATE, time>>, <<HEADER_VERSION, AZURE_VERSION>>,
                   <<AUTHORIZATION, signature>>>>]

PrepareWithLink(auth_token, cloud_url, uri_path, http_method, resource_type, time, resource_link) ==
    IF IsPanic(resource_link) THEN resource_link
    ELSE Ok(prepare_request_with_signature(cloud_url, uri_path, http_method, time,
               generate_authorization(auth_token, http_method, resource_type,
                                      resource_link.v, time).ret))
prepare_request(auth_token, cloud_url, uri_path, http_method, resource_type, now) ==
    PrepareWithLink(auth_token, cloud_url, uri_path, http_method, resource_type,
                    FormatTime(now), generate_resource_link(uri_path))

\* http::Uri accepts only ASCII in a URI
IsValidUri(uri) == \A i \in 1..Len(uri) : uri[i] > 32 /\ uri[i] < 127

\* builder.body(bytes::Bytes::new()).unwrap().into()
UnwrapBuilder(builder) ==
    IF IsPanic(builder) THEN builder
    ELSE IF ~IsValidUri(builder.v.uri) THEN Panic("called Result::unwrap() on an Err value")
    ELSE builder
prepare_request2(auth_token, cloud_url, uri_path, http_method, resource_type, now) ==
    UnwrapBuilder(prepare_request(auth_token, cloud_url, uri_path, http_method, resource_type, now))

\* CloudLocation: Public(account), China(account), Custom { account, uri }
CloudLocation(kind, account, uri) == [kind |-> kind, account |-> account, uri |-> uri]

\* CloudLocation::url
url(loc) ==
    CASE loc.kind = "Public" -> PublicUrl(loc.account)
      [] loc.kind = "China" -> Str("https://") \o loc.account \o Str(".documents.azure.cn")
      [] loc.kind = "Custom" -> loc.uri

\* Pipeline::new(.., per_call_policies, per_retry_policies): the chain of one
\* attempt is the per-call policies, the per-retry policies and the Transport
Pipeline_new(per_call_policies, per_retry_policies) ==
    [per_call_policies |-> per_call_policies, per_retry_policies |-> per_retry_policies,
     policies |-> per_call_policies \o per_retry_policies \o <<[policy |-> "Transport"]>>]

\* a faulty variant of new_pipeline_from_options: a policy is pushed after
\* the authorization policy
PipelineWithTrailingPolicy(token) ==
    Pipeline_new(<<>>, <<AuthorizationPolicy(token), AuthenticationPolicy(token)>>)

\* new_pipeline_from_options(options, authorization_token): no per-call
\* policy, and the AuthorizationPolicy built with the token as the one
\* per-retry policy
new_pipeline_from_options(token) == Pipeline_new(<<>>, <<AuthorizationPolicy(token)>>)

\* the struct CosmosClient as its four constructors fill it
CosmosClient(auth_token, cloud_location) ==
    [pipeline |-> new_pipeline_from_options(auth_token), auth_token |-> auth_token,
     cloud_location |-> cloud_location]
CosmosClient_new(account, auth_token) ==
    CosmosClient(auth_token, CloudLocation("Public", account, <<>>))
new_china(account, auth_token) ==
    CosmosClient(auth_token, CloudLocation("China", account, <<>>))
new_custom(account, auth_token, uri) ==
    CosmosClient(auth_token, CloudLocation("Custom", account, uri))

EMULATOR_ACCOUNT_KEY ==
    Str("C2y6yDjf5/R+ob0N8A7Cgv30VRDJIWEHLM+4QDU5DE2nQ9nDuVTqobD4b8mGGyPMbIZnqyMsEcaGQy67XIw/Jw==")
new_emulator(address, port) ==
    CosmosClient(Primary(Base64Decode(EMULATOR_ACCOUNT_KEY)),
                 CloudLocation("Custom", Str("Custom"), Str("https://") \o address \o Str(":") \o port))

\* the variables of Spec at rest, in the specifications that do not use them
ChainIdle ==
    /\ chain = <<>> /\ authorization_token = NoOutcome /\ request = NoOutcome
    /\ ctx = Context_new /\ here = 0 /\ pc = "ready" /\ result = NoOutcome /\ handed = <<>>
    /\ calls = <<>> /\ client = NoOutcome /\ attempts = <<>> /\ ops = <<>>

(***************************************************************************)
(* SpecLink: generate_resource_link applied to bounded paths               *)
(***************************************************************************)

\* the longest path is made of MaxPieces pieces
MaxPieces == 3

\* two non-ASCII characters: U+00E9 (2 bytes) and U+20AC (3 bytes)
EAcute == <<195, 169>>
EuroSign == <<226, 130, 172>>

Keywords == {ENDING_STRINGS[k] : k \in 1..Len(ENDING_STRINGS)}
Pieces == Keywords \cup {Str("/"), Str("a"), EAcute, EuroSign}

RECURSIVE Flatten(_)
Flatten(ps) == IF ps = <<>> THEN <<>> ELSE Head(ps) \o Flatten(Tail(ps))

Paths == {Flatten(ps) : ps \in UNION {[1..n -> Pieces] : n \in 0..MaxPieces}}

SignIdle == args = NoOutcome /\ sts = NoOutcome /\ signed = NoOutcome

InitLink == u \in Paths /\ link = NoOutcome /\ SignIdle /\ ChainIdle

CallGenerateResourceLink ==
    /\ link = NoOutcome
    /\ link' = generate_resource_link(u)
    /\ UNCHANGED <<u, signVars, chainVars>>

NextLink == CallGenerateResourceLink

SpecLink == InitLink /\ [][NextLink]_vars

(***************************************************************************)
(* SpecSign: string_to_sign and generate_authorization applied to bounded  *)
(* arguments                                                               *)
(***************************************************************************)

\* the keys of the two tests generate_authorization_00 and _01, decoded as
\* AuthorizationToken::primary_from_base64 decodes them
TestKey00 == Base64Decode(Str("8F8xXXOptJxkblM1DBXW7a6NMI5oE8NnwPGYBmwxLCKfejOK7B7yhcCHMGvN3PBrlMLIOeol1Hv9RCdzAZR5sg=="))
TestKey01 == Base64Decode(Str("dsZQi3KtZmCv1ljt3VNWNm7sQUF1y5rJfC6kv5JiwvW0EndXdDku/dkKBp8/ufDToSxL"))
TestLink00 == Str("dbs/MyDatabase/colls/MyCollection")
TestLink01 == Str("dbs/ToDoList")

\* resource tokens: an opaque text, and one with every character that
\* form-urlencoding rewrites
ResourceTokens == {Str("opaque-token_1.0*"), Str("type=resource&ver=1&sig=5mDu/s+k= ;")}

\* an extension method (http::Method::from_bytes of a non-standard name)
PROPFIND == Str("PROPFIND")
Methods == StandardMethods \cup {PROPFIND}
SignLinks == {<<>>, TestLink00, TestLink01}
SignTimes == {FormatTime(TestTime00), FormatTime(TestTime01)}

\* every combination for the resource tokens; for the primary keys, whose
\* signature is an HMAC, the combinations of two verbs and two resource types
SignCases ==
    ([auth_token : {Resource(t) : t \in ResourceTokens}, http_method : Methods,
      resource_type : ResourceTypes, resource_link : SignLinks, time : SignTimes])
    \cup
    ([auth_token : {Primary(k) : k \in {TestKey00, TestKey01}}, http_method : {GET, PROPFIND},
      resource_type : {"Databases", "Documents"}, resource_link : SignLinks, time : SignTimes])

LinkIdle == u = <<>> /\ link = NoOutcome

InitSign == args \in SignCases /\ sts = NoOutcome /\ signed = NoOutcome /\ LinkIdle /\ ChainIdle

CallStringToSign ==
    /\ sts = NoOutcome
    /\ sts' = string_to_sign(args.http_method, args.resource_type, args.resource_link, args.time)
    /\ UNCHANGED <<args, signed, linkVars, chainVars>>

CallGenerateAuthorization ==
    /\ sts # NoOutcome
    /\ signed = NoOutcome
    /\ signed' = generate_authorization(args.auth_token, args.http_method, args.resource_type,
                                        args.resource_link, args.time)
    /\ UNCHANGED <<args, sts, linkVars, chainVars>>

NextSign == CallStringToSign \/ CallGenerateAuthorization

SpecSign == InitSign /\ [][NextSign]_vars

(***************************************************************************)
(* SpecBag: calls of insert_into_bag and get_from_bag on one new Context   *)
(***************************************************************************)

\* the longest sequence of calls on the Context
MaxCalls == 3

BagValues == {BagValue("ResourceType", "Databases"), BagValue("String", "Databases")}

InitBag == ChainIdle /\ LinkIdle /\ SignIdle
BagUnchanged ==
    UNCHANGED <<chain, authorization_token, request, here, pc, result, handed, client, attempts,
                ops, linkVars, signVars>>

CallInsertIntoBag ==
    /\ Len(calls) < MaxCalls
    /\ \E k \in BagKeys, v \in BagValues :
          /\ ctx' = insert_into_bag(ctx, k, v)
          /\ calls' = Append(calls, [op |-> "insert_into_bag", k |-> k, v |-> v,
                                     returned |-> Replaced(ctx, k)])
    /\ BagUnchanged

CallGetFromBag ==
    /\ Len(calls) < MaxCalls
    /\ \E k \in BagKeys :
          calls' = Append(calls, [op |-> "get_from_bag", k |-> k, v |-> None,
                                  returned |-> get_from_bag(ctx, k)])
    /\ ctx' = ctx
    /\ BagUnchanged

NextBag == CallInsertIntoBag \/ CallGetFromBag

SpecBag == InitBag /\ [][NextBag]_vars

(***************************************************************************)
(* Spec: a chain of policies run over one request and one Context          *)
(***************************************************************************)

\* the longest chain has MaxChain policies
MaxChain == 3

\* the chains of one to MaxChain policies; a Transport, which is terminal,
\* only comes last
Chains ==
    {c \in UNION {[1..n -> {"AuthorizationPolicy", "AuthenticationPolicy", "Transport"}] :
                      n \in 1..MaxChain} :
        \A i \in 1..(Len(c) - 1) : c[i] # "Transport"}

\* the chains run with a primary key, whose signature is an HMAC: one pass
\* and two passes of the authorization policy before the Transport
PrimaryChains == {<<"AuthorizationPolicy", "Transport">>,
                  <<"AuthorizationPolicy", "AuthorizationPolicy", "Transport">>}

ChainTokens == {Resource(Str("type=resource&ver=1&sig=5mDu/s+k= ;")), Primary(TestKey01)}

Account == Str("acct")

\* request URIs: three absolute ones with a path, one with a query, one
\* without a path, one in origin form and one in authority form
Uris == {PublicUrl(Account) \o Str("/dbs"),
         PublicUrl(Account) \o Str("/dbs/ToDoList/colls"),
         PublicUrl(Account) \o Str("/dbs/ToDoList/colls/docs?a=1"),
         PublicUrl(Account),
         Str("/dbs/ToDoList"),
         Str("acct.documents.azure.com:443")}

\* header lists a request carries on entry: none of the signed headers, and
\* several values of each of them
OtherHeader == <<"content-type", Str("application/json")>>
StaleHeaders == <<<<AUTHORIZATION, Str("stale")>>, OtherHeader, <<HEADER_DATE, Str("yesterday")>>,
                  <<AUTHORIZATION, Str("older")>>, <<HEADER_VERSION, Str("2017-01-01")>>,
                  <<HEADER_DATE, Str("long ago")>>, <<HEADER_VERSION, AZURE_VERSION>>>>
HeaderLists == {<<>>, <<OtherHeader>>, StaleHeaders}

Requests == [method : {GET}, uri : Uris, headers : HeaderLists]
PrimaryRequests ==
    [method : {POST}, uri : {PublicUrl(Account) \o Str("/dbs/ToDoList/colls")},
     headers : {<<OtherHeader>>, StaleHeaders}]

\* the arguments of prepare_request2; the last path is not ASCII
UriPaths == {Str("dbs"), Str("dbs/ToDoList/colls"), Str("dbs/") \o EuroSign \o Str("a")}
PrepareCases ==
    [uri_path : UriPaths, http_method : {POST}, resource_type : {"Databases"}, now : Instants]
PrimaryPrepareCases ==
    [uri_path : {Str("dbs"), Str("dbs/") \o EuroSign \o Str("a")}, http_method : {POST},
     resource_type : {"Databases"}, now : Instants]

\* the statuses a Transport answers with
Statuses == {201, 503}

Init ==
    /\ chain \in Chains
    /\ authorization_token \in ChainTokens
    /\ authorization_token.kind = "Primary" => chain \in PrimaryChains
    /\ request = NoOutcome
    /\ ctx = Context_new
    /\ here = 0
    /\ pc = "ready"
    /\ result = NoOutcome
    /\ handed = <<>>
    /\ calls = <<>> /\ client = NoOutcome /\ attempts = <<>> /\ ops = <<>>
    /\ LinkIdle
    /\ SignIdle

\* the policies after chain[here]: the slice next of its send
Next_policies == SubSeq(chain, here + 1, Len(chain))

\* a caller builds the request itself
NewRequest ==
    /\ pc = "ready"
    /\ request = NoOutcome
    /\ \E req \in (IF authorization_token.kind = "Primary" THEN PrimaryRequests ELSE Requests) :
          request' = req
    /\ UNCHANGED <<chain, authorization_token, ctx, here, pc, result, handed, calls, client, attempts,
                   ops, linkVars, signVars>>

\* CosmosClient::prepare_request2 of a client built with the token of the chain
PrepareRequest2 ==
    /\ pc = "ready"
    /\ request = NoOutcome
    /\ \E a \in (IF authorization_token.kind = "Primary" THEN PrimaryPrepareCases ELSE PrepareCases) :
       \E o \in {prepare_request2(authorization_token, PublicUrl(Account), a.uri_path,
                                  a.http_method, a.resource_type, a.now)} :
          IF IsPanic(o)
          THEN request' = request /\ pc' = "panicked" /\ result' = o
          ELSE request' = o.v /\ pc' = pc /\ result' = result
    /\ UNCHANGED <<chain, authorization_token, ctx, here, handed, calls, client, attempts,
                   ops, linkVars, signVars>>

\* Context::insert_into_bag, by the caller before the chain runs
InsertIntoBag ==
    /\ pc = "ready"
    /\ \E k \in BagKeys, v \in BagValues : ctx' = insert_into_bag(ctx, k, v)
    /\ UNCHANGED <<chain, authorization_token, request, here, pc, result, handed, calls, client, attempts,
                   ops, linkVars, signVars>>

\* the Context and the request an attempt starts from and, once it is over,
\* its outcome and the Context it left
Attempt(c, req) == [ctx |-> c, request |-> req, outcome |-> NoOutcome, left |-> NoOutcome]

\* the caller calls chain[1].send(ctx, request, chain[2..]): the first attempt
PipelineSend ==
    /\ pc = "ready"
    /\ request # NoOutcome
    /\ pc' = "sending"
    /\ here' = 1
    /\ attempts' = <<Attempt(ctx, request)>>
    /\ UNCHANGED <<chain, authorization_token, request, ctx, result, handed, calls, client,
                   ops, linkVars, signVars>>

\* a faulty variant of AfterSend: the next policy is called with the request
\* as it was on entry, not with the signed one
AfterSendWithEntryRequest(o) ==
    /\ request' = (IF o.delegate THEN request ELSE o.request)
    /\ IF o.delegate
       THEN here' = here + 1 /\ pc' = "sending" /\ result' = result
       ELSE here' = here /\ pc' = (IF IsPanic(o.outcome) THEN "panicked" ELSE "returned")
            /\ result' = o.outcome

\* what a send that ran at chain[here] leaves: either it delegates to
\* chain[here + 1], or the run ends with its outcome
AfterSend(o) ==
    /\ request' = o.request
    /\ IF o.delegate
       THEN here' = here + 1 /\ pc' = "sending" /\ result' = result
       ELSE here' = here /\ pc' = (IF IsPanic(o.outcome) THEN "panicked" ELSE "returned")
            /\ result' = o.outcome

AuthorizationPolicySend ==
    /\ pc = "sending"
    /\ chain[here] = "AuthorizationPolicy"
    /\ \E now \in Instants :
       \E o \in {AuthorizationPolicySendOutcome(AuthorizationPolicy(authorization_token), ctx,
                                                request, Next_policies, now)} :
          /\ AfterSend(o)
          /\ handed' = IF o.delegate
                       THEN Append(handed, [before |-> request, after |-> o.request,
                                            next |-> Next_policies, now |-> now])
                       ELSE handed
    /\ UNCHANGED <<chain, authorization_token, ctx, calls, client, attempts,
                   ops, linkVars, signVars>>

AuthenticationPolicySend ==
    /\ pc = "sending"
    /\ chain[here] = "AuthenticationPolicy"
    /\ AfterSend(AuthenticationPolicySendOutcome(AuthenticationPolicy(authorization_token), ctx,
                                                 request, Next_policies))
    /\ UNCHANGED <<chain, authorization_token, ctx, handed, calls, client, attempts,
                   ops, linkVars, signVars>>

\* the terminal policy answers with a status
TransportSend ==
    /\ pc = "sending"
    /\ chain[here] = "Transport"
    /\ \E status \in Statuses : result' = Ok([status |-> status])
    /\ pc' = "returned"
    /\ UNCHANGED <<chain, authorization_token, request, ctx, here, handed, calls, client, attempts,
                   ops, linkVars, signVars>>

Next ==
    \/ NewRequest
    \/ PrepareRequest2
    \/ InsertIntoBag
    \/ PipelineSend
    \/ AuthorizationPolicySend
    \/ AuthenticationPolicySend
    \/ TransportSend

Spec == Init /\ [][Next]_vars

(***************************************************************************)
(* SpecRetry: Pipeline::send with its retry loop over a chain of policies  *)
(***************************************************************************)

\* the retries after the first attempt
MaxRetries == 2

\* a network or connection failure of the Transport
TransportError == [tag |-> "err", error |-> "Transport"]

\* the Context a caller seeds with the resource type of the operation
SeededContext(rt) == insert_into_bag(Context_new, "resource_type", BagValue("ResourceType", rt))

RetryRequests ==
    [method : {GET}, uri : {PublicUrl(Account) \o Str("/dbs/ToDoList/colls")},
     headers : {<<OtherHeader>>, StaleHeaders}]

\* chains that end in a Transport, and chains whose last policy has no next
RetryChains ==
    {<<"Transport">>,
     <<"AuthorizationPolicy", "Transport">>,
     <<"AuthenticationPolicy", "AuthorizationPolicy", "Transport">>,
     <<"AuthorizationPolicy">>,
     <<"AuthenticationPolicy", "AuthorizationPolicy">>,
     <<"AuthenticationPolicy">>}

InitRetry ==
    /\ chain \in RetryChains
    /\ authorization_token \in {t \in ChainTokens : t.kind = "Resource"}
    /\ request \in RetryRequests
    /\ ctx \in {SeededContext("Databases"),
                insert_into_bag(SeededContext("Databases"), "request_id",
                                BagValue("String", "Databases"))}
    /\ here = 0 /\ pc = "ready" /\ result = NoOutcome /\ handed = <<>>
    /\ calls = <<>> /\ client = NoOutcome /\ attempts = <<>> /\ ops = <<>>
    /\ LinkIdle
    /\ SignIdle

\* the Transport fails on the network; the failed attempt may leave its
\* number in the Context for the policies of the next attempt
TransportFails ==
    /\ pc = "sending"
    /\ chain[here] = "Transport"
    /\ result' = TransportError
    /\ pc' = "returned"
    /\ \E noted \in BOOLEAN :
          ctx' = IF noted
                 THEN insert_into_bag(ctx, "request_id", BagValue("u32", ToString(Len(attempts))))
                 ELSE ctx
    /\ UNCHANGED <<chain, authorization_token, request, here, handed, calls, client, attempts,
                   ops, linkVars, signVars>>

\* a faulty variant of ShouldRetry: every error is taken for a transient one
RetryAnyError(r, made) == r.tag = "err" /\ made <= MaxRetries

\* a faulty variant of ShouldRetry: the attempts made are not counted
RetryWithoutCount(r, made) == r = TransportError

\* an attempt is followed by another one when it ended in a transient
\* failure and retries are left
ShouldRetry(r, made) == r = TransportError /\ made <= MaxRetries

\* the attempts with the outcome r of the last one filled in
Attempted(r) == [attempts EXCEPT ![Len(attempts)].outcome = r, ![Len(attempts)].left = ctx]

\* a faulty variant of RetryAttempt: the Context is put back to what the
\* caller seeded
RetryResettingContext ==
    /\ pc = "returned"
    /\ ShouldRetry(result, Len(attempts))
    /\ request' = attempts[1].request
    /\ ctx' = attempts[1].ctx
    /\ attempts' = Append(Attempted(result), Attempt(attempts[1].ctx, attempts[1].request))
    /\ here' = 1
    /\ pc' = "sending"
    /\ result' = NoOutcome
    /\ UNCHANGED <<chain, authorization_token, handed, calls, client, ops, linkVars, signVars>>

\* the retry loop starts the next attempt: the chain is entered again at its
\* first per-retry policy with the same Context and the request as prepared
RetryAttempt ==
    /\ pc = "returned"
    /\ ShouldRetry(result, Len(attempts))
    /\ request' = attempts[1].request
    /\ attempts' = Append(Attempted(result), Attempt(ctx, attempts[1].request))
    /\ here' = 1
    /\ pc' = "sending"
    /\ result' = NoOutcome
    /\ UNCHANGED <<chain, authorization_token, ctx, handed, calls, client, ops, linkVars, signVars>>

\* Pipeline::send returns the outcome of the last attempt
PipelineReturns ==
    /\ pc = "returned"
    /\ ~ShouldRetry(result, Len(attempts))
    /\ attempts' = Attempted(result)
    /\ pc' = "sent"
    /\ UNCHANGED <<chain, authorization_token, request, ctx, here, result, handed, calls, client,
                   ops, linkVars, signVars>>

NextRetry ==
    \/ PipelineSend
    \/ AuthorizationPolicySend
    \/ AuthenticationPolicySend
    \/ TransportSend
    \/ TransportFails
    \/ RetryAttempt
    \/ PipelineReturns

SpecRetry == InitRetry /\ [][NextRetry]_vars

(***************************************************************************)
(* SpecClient: CosmosClient::create_database through the pipeline of a     *)
(* client built by one of the four constructors                            *)
(***************************************************************************)

Clients ==
    {CosmosClient_new(Account, t) : t \in ChainTokens}
    \cup {new_china(Account, t) : t \in {k \in ChainTokens : k.kind = "Resource"}}
    \cup {new_custom(Account, t, Str("https://cosmos.example.org/base")) :
              t \in {k \in ChainTokens : k.kind = "Resource"}}
    \cup {new_emulator(Str("localhost"), Str("8081"))}

\* the kinds of the policies of a pipeline, in calling order
PolicyNames(policies) == [i \in 1..Len(policies) |-> policies[i].policy]

InitClient ==
    /\ client \in Clients
    /\ chain = PolicyNames(client.pipeline.policies)
    /\ authorization_token = client.pipeline.per_retry_policies[1].authorization_token
    /\ request = NoOutcome /\ ctx = Context_new
    /\ here = 0 /\ pc = "ready" /\ result = NoOutcome /\ handed = <<>>
    /\ calls = <<>> /\ attempts = <<>> /\ ops = <<>>
    /\ LinkIdle
    /\ SignIdle

\* the error of options.decorate_request(..)?
DecorateError == [tag |-> "err", error |-> "DecorateRequest"]

\* create_database up to the call of self.pipeline().send: the request is
\* prepared, the Context is seeded with ResourceType::Databases, the options
\* decorate the request, and the first attempt starts
CreateDatabase ==
    /\ pc = "ready"
    /\ \E now \in Instants, decorated \in BOOLEAN :
       \E o \in {prepare_request2(client.auth_token, url(client.cloud_location), Str("dbs"),
                                  POST, "Databases", now)} :
          IF IsPanic(o)
          THEN /\ pc' = "panicked" /\ result' = o
               /\ UNCHANGED <<request, ctx, here, attempts>>
          ELSE IF ~decorated
          THEN /\ pc' = "done" /\ result' = DecorateError
               /\ request' = o.v /\ ctx' = SeededContext("Databases")
               /\ UNCHANGED <<here, attempts>>
          ELSE /\ pc' = "sending" /\ result' = NoOutcome
               /\ request' = o.v /\ ctx' = SeededContext("Databases")
               /\ here' = 1
               /\ attempts' = <<Attempt(SeededContext("Databases"), o.v)>>
    /\ UNCHANGED <<chain, authorization_token, handed, calls, client, ops, linkVars, signVars>>

\* Response::validate(expected): the response when its status is the
\* expected one, else an error naming the status
validate(r, expected) ==
    IF r.v.status = expected THEN r
    ELSE [tag |-> "err", error |-> "UnexpectedStatus", status |-> r.v.status]

ClientUnchanged ==
    UNCHANGED <<chain, authorization_token, request, ctx, here, handed, calls, client, attempts,
                ops, linkVars, signVars>>

\* a faulty variant of ValidateCreated: the call of validate is left out
ConvertWithoutValidate ==
    /\ pc = "sent"
    /\ IF result.tag = "err"
       THEN pc' = "done" /\ result' = result
       ELSE pc' = "validated" /\ result' = result
    /\ ClientUnchanged

\* self.pipeline().send(..).await?.validate(http::StatusCode::CREATED).await?
ValidateCreated ==
    /\ pc = "sent"
    /\ IF result.tag = "err"
       THEN pc' = "done" /\ result' = result
       ELSE \E o \in {validate(result, 201)} :
               /\ pc' = (IF o.tag = "err" THEN "done" ELSE "validated")
               /\ result' = o
    /\ ClientUnchanged

\* Ok(CreateDatabaseResponse::try_from(response).await?): the body of the
\* response is converted, which may fail
TryFromResponse ==
    /\ pc = "validated"
    /\ \E converted \in BOOLEAN :
          result' = IF converted
                    THEN Ok([type |-> "CreateDatabaseResponse"])
                    ELSE [tag |-> "err", error |-> "TryFrom"]
    /\ pc' = "done"
    /\ ClientUnchanged

NextClient ==
    \/ CreateDatabase
    \/ AuthorizationPolicySend
    \/ TransportSend
    \/ TransportFails
    \/ RetryAttempt
    \/ PipelineReturns
    \/ ValidateCreated
    \/ TryFromResponse

SpecClient == InitClient /\ [][NextClient]_vars

(***************************************************************************)
(* Properties                                                              *)
(***************************************************************************)

\* the run is over and the policy that ended it had an empty next
EndedAtTail(policy) ==
    /\ pc \in {"returned", "panicked"}
    /\ here >= 1
    /\ here = Len(chain)
    /\ chain[here] = policy

\* C1: AuthorizationPolicy::send called with an empty next returns
\* Err(InvalidTailPolicy) carrying the policy itself and does not panic,
\* whatever the request and the Context hold.
C1_EmptyNextIsInvalidTailPolicy ==
    EndedAtTail("AuthorizationPolicy") =>
        /\ pc = "returned"
        /\ result = InvalidTailPolicy(AuthorizationPolicy(authorization_token))

\* an authorization policy that ran with an empty next, with an empty bag and
\* a request URI without a path: inputs on which signing would panic
C1_Witness ==
    /\ EndedAtTail("AuthorizationPolicy")
    /\ get_from_bag(ctx, "resource_type") = None
    /\ path_and_query(request.uri) = None
    /\ result.tag = "err"

\* C2: AuthenticationPolicy::send called with an empty next fails with an
\* InvalidTailPolicy error and does not panic.
C2_AuthenticationEmptyNextIsInvalidTailPolicy ==
    EndedAtTail("AuthenticationPolicy") =>
        /\ pc = "returned"
        /\ result.tag = "err"
        /\ result.error = "InvalidTailPolicy"

\* the path u ends in "/" followed by the keyword k
EndsInSlashKeyword(p, k) ==
    /\ Len(p) > Len(k)
    /\ SubSeq(p, Len(p) - Len(k), Len(p)) = Str("/") \o k

\* C3: for a path q + "/" + k with k one of the ten keywords,
\* generate_resource_link returns exactly q, whatever q contains; for a path
\* equal to a keyword it returns the empty string.
C3_TrailingKeywordIsRemoved ==
    link # NoOutcome =>
        \A k \in Keywords :
            /\ u = k => link = Ok(<<>>)
            /\ EndsInSlashKeyword(u, k) => link = Ok(SubSeq(u, 1, Len(u) - Len(k) - 1))

\* C4: for a path that is neither a keyword nor ends in "/" followed by a
\* keyword, generate_resource_link returns the path unchanged.
C4_OtherPathsAreUnchanged ==
    (/\ link # NoOutcome
     /\ u \notin Keywords
     /\ \A k \in Keywords : ~EndsInSlashKeyword(u, k))
        => link = Ok(u)

\* the keyword of each resource kind
KeywordOfKind ==
    [Databases |-> Str("dbs"), Collections |-> Str("colls"), Documents |-> Str("docs"),
     StoredProcedures |-> Str("sprocs"), Users |-> Str("users"),
     Permissions |-> Str("permissions"), Attachments |-> Str("attachments"),
     PartitionKeyRanges |-> Str("pkranges"), UserDefinedFunctions |-> Str("udfs"),
     Triggers |-> Str("triggers")]

\* C5: string_to_sign is the verb in lower case, the keyword of the resource
\* kind, the resource link as given and the time in lower case, each followed
\* by one newline, and one more newline at the end.
C5_StringToSignLines ==
    sts # NoOutcome =>
        sts = ToLowercase(args.http_method) \o Str("\n")
                \o KeywordOfKind[args.resource_type] \o Str("\n")
                \o args.resource_link \o Str("\n")
                \o ToLowercase(args.time) \o Str("\n\n")

\* the arguments of the tests generate_authorization_00 and _01
TestCase00 ==
    [auth_token |-> Primary(TestKey00), http_method |-> GET, resource_type |-> "Databases",
     resource_link |-> TestLink00, time |-> FormatTime(TestTime00)]
TestCase01 ==
    [auth_token |-> Primary(TestKey01), http_method |-> GET, resource_type |-> "Databases",
     resource_link |-> TestLink01, time |-> FormatTime(TestTime01)]

\* C6: for a primary key, generate_authorization returns the form-URL-encoding
\* of "type=master&ver=1.0&sig=" followed by the base64 of the HMAC-SHA256,
\* under the key bytes, of the string-to-sign of the same arguments; the two
\* test vectors give exactly the strings the tests assert.
C6_PrimaryKeySignature ==
    (signed # NoOutcome /\ args.auth_token.kind = "Primary") =>
        /\ signed.ret = byte_serialize(Str("type=master&ver=1.0&sig=")
                            \o Base64Encode(HmacSha256(args.auth_token.key, sts)))
        /\ args = TestCase00 =>
              signed.ret = Str("type%3Dmaster%26ver%3D1.0%26sig%3DQkz%2Fr%2B1N2%2BPEnNijxGbGB%2FADvLsLBQmZ7uBBMuIwf4I%3D")
        /\ args = TestCase01 =>
              signed.ret = Str("type%3Dmaster%26ver%3D1.0%26sig%3DKvBM8vONofkv3yKm%2F8zD9MEGlbu6jjHDJBp4E9c2ZZI%3D")

\* the first test vector has been signed
C6_Witness == signed # NoOutcome /\ args = TestCase00

\* C7: for a resource token, the descriptor is "type=resource&ver=1.0&sig="
\* followed by the token itself, whatever the verb, the resource kind, the
\* resource link and the time.
C7_ResourceTokenIsNotSigned ==
    (signed # NoOutcome /\ args.auth_token.kind = "Resource") =>
        signed.str_unencoded = Str("type=resource&ver=1.0&sig=") \o args.auth_token.key

\* a resource token signed for an extension verb and a non-empty link
C7_Witness ==
    /\ signed # NoOutcome
    /\ args.auth_token.kind = "Resource"
    /\ args.http_method = PROPFIND
    /\ args.resource_type = "Triggers"
    /\ args.resource_link = TestLink00

\* the number of places where the text t occurs in s
Occurrences(s, t) == Cardinality({i \in 1..(Len(s) - Len(t) + 1) : SubSeq(s, i, i + Len(t) - 1) = t})

\* C8: the value generate_authorization returns is the whole descriptor as one
\* form-URL-encoded value: every = & / + and space of the descriptor is
\* encoded (%3D %26 %2F %2B +), and decoding the value gives the descriptor.
C8_DescriptorIsFormUrlEncoded ==
    signed # NoOutcome =>
        /\ FormUrlDecode(signed.ret) = signed.str_unencoded
        /\ \A i \in 1..Len(signed.ret) :
              signed.ret[i] \notin {Ord("="), Ord("&"), Ord("/"), Ord(" ")}
        /\ Occurrences(signed.ret, Str("%3D")) = Occurrences(signed.str_unencoded, Str("="))
        /\ Occurrences(signed.ret, Str("%26")) = Occurrences(signed.str_unencoded, Str("&"))
        /\ Occurrences(signed.ret, Str("%2F")) = Occurrences(signed.str_unencoded, Str("/"))
        /\ Occurrences(signed.ret, Str("%2B")) = Occurrences(signed.str_unencoded, Str("+"))
        /\ Occurrences(signed.ret, Str("+")) = Occurrences(signed.str_unencoded, Str(" "))

\* a descriptor whose token holds each of = & / + and a space
C8_Witness ==
    /\ signed # NoOutcome
    /\ args.auth_token.kind = "Resource"
    /\ \A c \in {Ord("="), Ord("&"), Ord("/"), Ord("+"), Ord(" ")} :
          \E i \in 1..Len(args.auth_token.key) : args.auth_token.key[i] = c

\* C9: the request AuthorizationPolicy::send hands to the next policy carries
\* exactly one date header, exactly one version header, of value 2018-12-31,
\* and exactly one authorization header, whatever the request carried on
\* entry and on every pass over the same request.
C9_OneOfEachSignedHeader ==
    \A i \in 1..Len(handed) :
        /\ Len(HeaderValues(handed[i].after.headers, HEADER_DATE)) = 1
        /\ HeaderValues(handed[i].after.headers, HEADER_VERSION) = <<<<HEADER_VERSION, AZURE_VERSION>>>>
        /\ Len(HeaderValues(handed[i].after.headers, AUTHORIZATION)) = 1

\* a second pass over a request that entered the first pass with two values
\* of each signed header
C9_Witness ==
    /\ Len(handed) = 2
    /\ Len(HeaderValues(handed[1].before.headers, HEADER_DATE)) = 2
    /\ Len(HeaderValues(handed[1].before.headers, HEADER_VERSION)) = 2
    /\ Len(HeaderValues(handed[1].before.headers, AUTHORIZATION)) = 2
    /\ handed[2].before = handed[1].after

(***************************************************************************)
(* Context bag                                                             *)
(***************************************************************************)

\* the value of the last insert_into_bag under key k among the calls cs, None
\* when there is none
RECURSIVE LastInserted(_, _)
LastInserted(cs, k) ==
    IF cs = <<>> THEN None
    ELSE IF cs[Len(cs)].op = "insert_into_bag" /\ cs[Len(cs)].k = k THEN cs[Len(cs)].v
    ELSE LastInserted(SubSeq(cs, 1, Len(cs) - 1), k)

\* C11: a new Context returns nothing for every key; insert_into_bag(k, v)
\* returns the value k held before (nothing when it held none) and leaves the
\* other keys as they were; get_from_bag(k) returns the value inserted last
\* under k (nothing when there is none) and does not modify the bag. So after
\* any sequence of calls each call has returned the value inserted last under
\* its key before it, and the bag holds under every key the value inserted
\* last under it.
C11_BagInsertAndGet ==
    /\ \A i \in 1..Len(calls) :
          calls[i].returned = LastInserted(SubSeq(calls, 1, i - 1), calls[i].k)
    /\ \A k \in BagKeys : get_from_bag(ctx, k) = LastInserted(calls, k)

\* three calls were made: a key was inserted twice, the second insert returned
\* the first value, and a get of the other key returned nothing
C11_Witness ==
    /\ Len(calls) = 3
    /\ calls[1].op = "insert_into_bag" /\ calls[2].op = "insert_into_bag"
    /\ calls[1].k = calls[2].k /\ calls[2].returned = calls[1].v
    /\ calls[3].op = "get_from_bag" /\ calls[3].k # calls[1].k /\ calls[3].returned = None

\* C12: once a value was inserted under a key, the type stored under the key
\* stays fixed: no later insert_into_bag under the key holds a value of
\* another type.
C12_KeyTypeStaysFixed ==
    \A i, j \in 1..Len(calls) :
        (/\ i < j
         /\ calls[i].op = "insert_into_bag" /\ calls[j].op = "insert_into_bag"
         /\ calls[i].k = calls[j].k)
        => calls[j].v.type = calls[i].v.type

(***************************************************************************)
(* The bag item read by AuthorizationPolicy::send                          *)
(***************************************************************************)

\* C14: when AuthorizationPolicy::send runs with a non-empty next and the
\* Context has no "resource_type" item, or one that is not a ResourceType,
\* the call ends in a panic and never in an Err; the request (its headers
\* too) is as it was on entry and the next policy is not called.
C14_MissingResourceTypePanics ==
    [][(/\ pc = "sending"
        /\ chain[here] = "AuthorizationPolicy"
        /\ ~is_empty(Next_policies)
        /\ \/ get_from_bag(ctx, "resource_type") = None
           \/ get_from_bag(ctx, "resource_type").type # "ResourceType")
       => (/\ pc' = "panicked"
           /\ IsPanic(result')
           /\ request' = request
           /\ here' = here
           /\ handed' = handed)]_vars

\* such a send ended: one on a missing item and a request carrying stale
\* signed headers, or one on an item of another type
C14_Witness ==
    /\ pc = "panicked"
    /\ here >= 1 /\ here < Len(chain)
    /\ chain[here] = "AuthorizationPolicy"
    /\ result = Panic("SDK bug: bag item called resource_type must be of type ResourceType")
    /\ get_from_bag(ctx, "resource_type") = BagValue("String", "Databases")
    /\ request.headers = StaleHeaders

(***************************************************************************)
(* Order of the policies and what is signed                                *)
(***************************************************************************)

\* the number of authorization policies among the first n policies of the chain
AuthorizationPoliciesUpTo(n) == Cardinality({i \in 1..n : chain[i] = "AuthorizationPolicy"})

\* the Authorization value that signs request req at instant now for the
\* resource type of the Context
SignatureOf(req, now) ==
    generate_authorization(authorization_token, req.method, ResourceTypeOf(ctx).v,
                           generate_resource_link(UriPathOf(req.uri).v).v, FormatTime(now)).ret

\* C16: within one attempt the policies run strictly in configured order and
\* the authorization policy signs the request as it is at that moment: the
\* i-th delegation is made by the i-th authorization policy of the chain, on
\* the request the policies before it left; its Authorization header is
\* computed from the method and the URI of that request, and the request
\* handed to the next policy has the method and the URI that were signed.
C16_SignsTheRequestAsItIs ==
    /\ pc = "sending" => Len(handed) = AuthorizationPoliciesUpTo(here - 1)
    /\ \A i \in 1..Len(handed) :
          /\ chain[Len(chain) - Len(handed[i].next)] = "AuthorizationPolicy"
          /\ AuthorizationPoliciesUpTo(Len(chain) - Len(handed[i].next)) = i
          /\ i > 1 => handed[i].before = handed[i - 1].after
          /\ handed[i].after.method = handed[i].before.method
          /\ handed[i].after.uri = handed[i].before.uri
          /\ HeaderValues(handed[i].after.headers, AUTHORIZATION)
                = <<<<AUTHORIZATION, SignatureOf(handed[i].before, handed[i].now)>>>>

\* two authorization policies ran in turn with a primary key, on a POST
\* request that entered with stale signed headers
C16_Witness ==
    /\ Len(handed) = 2
    /\ authorization_token.kind = "Primary"
    /\ handed[1].before.method = POST
    /\ handed[1].before.headers = StaleHeaders
    /\ handed[2].now # handed[1].now
    /\ pc = "returned"

(***************************************************************************)
(* The retry loop                                                          *)
(***************************************************************************)

\* C13: the Context of an operation is not reset between retry attempts:
\* every attempt starts from the Context the attempt before it left, with
\* the entries seeded before the first attempt and the entries earlier
\* attempts inserted, while the request of every attempt is the request as
\* prepared before the first one.
C13_ContextIsKeptAcrossAttempts ==
    \A i \in 2..Len(attempts) :
        /\ attempts[i].ctx = attempts[i - 1].left
        /\ get_from_bag(attempts[i].ctx, "resource_type")
              = get_from_bag(attempts[1].ctx, "resource_type")
        /\ attempts[i].request = attempts[1].request

\* a third attempt started from a Context holding what the second attempt
\* inserted and what the caller seeded, after the second attempt had signed
\* the request
C13_Witness ==
    /\ Len(attempts) = 3
    /\ get_from_bag(attempts[1].ctx, "request_id") = BagValue("String", "Databases")
    /\ get_from_bag(attempts[2].ctx, "request_id") = BagValue("String", "Databases")
    /\ get_from_bag(attempts[3].ctx, "request_id") = BagValue("u32", "2")
    /\ get_from_bag(attempts[3].ctx, "resource_type") = BagValue("ResourceType", "Databases")
    /\ Len(handed) = 2
    /\ handed[2].after # attempts[3].request

\* what holds while the retry loop runs: attempts are sequential (an attempt
\* starts when the one before it is over), the chain is entered again only
\* after a transient failure, there are never more attempts than the first
\* one and the configured retries, a transient failure is returned only when
\* the retries are exhausted, and what Pipeline::send returns is the outcome
\* of the last attempt
RetryLoopIsBounded ==
    /\ Len(attempts) <= MaxRetries + 1
    /\ \A i \in 1..(Len(attempts) - 1) : attempts[i].outcome = TransportError
    /\ pc = "sent" => result = attempts[Len(attempts)].outcome
    /\ (pc = "sent" /\ result = TransportError) => Len(attempts) = MaxRetries + 1

\* the steps an operation has left at most: one for each policy of the
\* attempt under way and one for the retry loop, and as much again for each
\* attempt that may follow
StepsLeft ==
    IF pc \in {"sent", "panicked"} THEN 0
    ELSE (MaxRetries + 1 - Len(attempts)) * (Len(chain) + 2)
         + (CASE pc = "ready" -> 1
              [] pc = "sending" -> Len(chain) - here + 2
              [] pc = "returned" -> 1)

\* C17: the retry loop of an operation is bounded: RetryLoopIsBounded holds
\* throughout, and every step of the operation lowers the number of steps it
\* has left, which is never negative, so the operation terminates; when the
\* retries are exhausted it returns the failure of the last attempt.
C17_RetryLoopTerminates ==
    /\ [](RetryLoopIsBounded /\ StepsLeft >= 0)
    /\ [][StepsLeft' < StepsLeft]_vars

\* the retries were exhausted: every attempt failed in the Transport and the
\* failure of the last one was returned
C17_Witness ==
    /\ pc = "sent"
    /\ Len(attempts) = MaxRetries + 1
    /\ \A i \in 1..Len(attempts) : attempts[i].outcome = TransportError
    /\ result = TransportError

\* C18: an attempt that fails with InvalidTailPolicy or with a signing error
\* (a header value that cannot be built) is never retried: it is the last
\* attempt, and Pipeline::send returns its error unchanged.
C18_FatalErrorsAreNotRetried ==
    \A i \in 1..Len(attempts) :
        (/\ attempts[i].outcome.tag = "err"
         /\ attempts[i].outcome.error \in {"InvalidTailPolicy", "InvalidHeaderValue"})
        => /\ i = Len(attempts)
           /\ pc = "sent"
           /\ result = attempts[i].outcome

\* Pipeline::send returned the InvalidTailPolicy of an authorization policy
\* that has no next, after the one attempt
C18_Witness ==
    /\ pc = "sent"
    /\ Len(attempts) = 1
    /\ chain[Len(chain)] = "AuthorizationPolicy"
    /\ attempts[1].outcome = InvalidTailPolicy(AuthorizationPolicy(authorization_token))
    /\ result = InvalidTailPolicy(AuthorizationPolicy(authorization_token))

(***************************************************************************)
(* The client: its pipeline and create_database                            *)
(***************************************************************************)

\* C15: in the pipeline of every client built by new, new_china, new_custom
\* or new_emulator the authorization policy is the last per-retry policy, so
\* in the chain of an attempt the only policy after it is the Transport: the
\* chain is the per-call policies, the per-retry policies and the Transport,
\* and whenever the authorization policy delegates, its next is the
\* Transport alone.
C15_AuthorizationPolicyIsLastPerRetry ==
    /\ client.pipeline.per_retry_policies # <<>>
    /\ client.pipeline.per_retry_policies[Len(client.pipeline.per_retry_policies)]
          = AuthorizationPolicy(authorization_token)
    /\ chain = PolicyNames(client.pipeline.per_call_policies)
                  \o PolicyNames(client.pipeline.per_retry_policies) \o <<"Transport">>
    /\ \A i \in 1..Len(handed) : handed[i].next = <<"Transport">>

\* the authorization policy of a client of the Chinese cloud or of a custom
\* one (the emulator too) delegated in a second attempt
C15_Witness ==
    /\ client.cloud_location.kind \in {"Custom", "China"}
    /\ Len(attempts) = 2
    /\ Len(handed) = 2
    /\ chain[here] = "Transport"

\* C19: create_database returns a CreateDatabaseResponse only if the pipeline
\* returned a response whose status is 201 CREATED; a pipeline error or any
\* other status is returned to the caller as an error, and the body of the
\* response is converted only after a 201.
C19_OnlyCreatedIsConverted ==
    /\ pc = "validated"
          => attempts[Len(attempts)].outcome = Ok([status |-> 201])
    /\ (pc = "done" /\ result.tag = "ok")
          => /\ result.v = [type |-> "CreateDatabaseResponse"]
             /\ attempts # <<>>
             /\ attempts[Len(attempts)].outcome = Ok([status |-> 201])
    /\ (pc = "done" /\ attempts # <<>> /\ attempts[Len(attempts)].outcome # Ok([status |-> 201]))
          => /\ result.tag = "err"
             /\ attempts[Len(attempts)].outcome.tag = "err" => result = attempts[Len(attempts)].outcome
             /\ attempts[Len(attempts)].outcome.tag = "ok" => result.error = "UnexpectedStatus"

\* create_database returned an error for the status 503 that the pipeline
\* returned after a failed first attempt
C19_Witness ==
    /\ pc = "done"
    /\ Len(attempts) = 2
    /\ attempts[2].outcome = Ok([status |-> 503])
    /\ result = [tag |-> "err", error |-> "UnexpectedStatus", status |-> 503]

(***************************************************************************)
(* SpecTwo: two operations run concurrently through one client.  The       *)
(* client and its policies are shared and never written; each operation     *)
(* holds the Request and the Context its own call built, and a step of the  *)
(* pipeline acts for one operation at a time.                               *)
(***************************************************************************)

\* the two concurrent calls
Operations == {1, 2}

\* what a call builds before it enters the pipeline: its Request and its
\* Context
OperationInputs ==
    {[request |-> [method |-> POST, uri |-> PublicUrl(Account) \o Str("/dbs"), headers |-> <<>>],
      ctx |-> SeededContext("Databases")],
     [request |-> [method |-> GET, uri |-> PublicUrl(Account) \o Str("/dbs/ToDoList/colls"),
                   headers |-> StaleHeaders],
      ctx |-> SeededContext("Collections")]}

\* an operation that has entered the pipeline with the input inp
Operation(inp) ==
    [input |-> inp, request |-> inp.request, ctx |-> inp.ctx, here |-> 1, pc |-> "sending",
     now |-> NoOutcome, sent |-> NoOutcome, result |-> NoOutcome]

InitTwo ==
    /\ client \in {CosmosClient_new(Account, t) : t \in ChainTokens}
    /\ chain = PolicyNames(client.pipeline.policies)
    /\ authorization_token = client.pipeline.per_retry_policies[1].authorization_token
    /\ ops \in {f \in [Operations -> {Operation(inp) : inp \in OperationInputs}] :
                    f[1].input.request.method = POST}
    /\ request = NoOutcome /\ ctx = Context_new
    /\ here = 0 /\ pc = "ready" /\ result = NoOutcome /\ handed = <<>>
    /\ calls = <<>> /\ attempts = <<>>
    /\ LinkIdle
    /\ SignIdle

TwoUnchanged ==
    UNCHANGED <<chain, authorization_token, request, ctx, here, pc, result, handed, calls, client,
                attempts, linkVars, signVars>>

\* the operation op after a policy returned the outcome o at the instant now
OperationAfterSend(op, o, now) ==
    [op EXCEPT !.request = o.request,
               !.now = now,
               !.here = IF o.delegate THEN op.here + 1 ELSE op.here,
               !.pc = IF o.delegate THEN "sending"
                      ELSE IF IsPanic(o.outcome) THEN "panicked" ELSE "returned",
               !.result = IF o.delegate THEN op.result ELSE o.outcome]

\* a faulty variant of OperationAuthorizationPolicySend: the policy keeps the
\* request it signs in a field of its own, which the operation that came
\* first has filled
OperationSendWithSharedRequest ==
    /\ \E i \in Operations, now \in Instants :
          /\ ops[i].pc = "sending"
          /\ chain[ops[i].here] = "AuthorizationPolicy"
          /\ \E o \in {AuthorizationPolicySendOutcome(
                           client.pipeline.policies[ops[i].here], ops[i].ctx, ops[1].request,
                           SubSeq(chain, ops[i].here + 1, Len(chain)), now)} :
                ops' = [ops EXCEPT ![i] = OperationAfterSend(ops[i], o, now)]
    /\ TwoUnchanged

\* AuthorizationPolicy::send for one of the operations: &self is the shared
\* policy, ctx and request are the operation's own
OperationAuthorizationPolicySend ==
    /\ \E i \in Operations, now \in Instants :
          /\ ops[i].pc = "sending"
          /\ chain[ops[i].here] = "AuthorizationPolicy"
          /\ \E o \in {AuthorizationPolicySendOutcome(
                           client.pipeline.policies[ops[i].here], ops[i].ctx, ops[i].request,
                           SubSeq(chain, ops[i].here + 1, Len(chain)), now)} :
                ops' = [ops EXCEPT ![i] = OperationAfterSend(ops[i], o, now)]
    /\ TwoUnchanged

\* the transport sends the request of one of the operations
OperationTransportSend ==
    /\ \E i \in Operations, status \in Statuses :
          /\ ops[i].pc = "sending"
          /\ chain[ops[i].here] = "Transport"
          /\ ops' = [ops EXCEPT ![i].sent = ops[i].request,
                                ![i].pc = "returned",
                                ![i].result = Ok([status |-> status])]
    /\ TwoUnchanged

NextTwo ==
    \/ OperationAuthorizationPolicySend
    \/ OperationTransportSend

SpecTwo == InitTwo /\ [][NextTwo]_vars

\* what the operation op sends when it runs alone through the policy self at
\* the instant now
SentAlone(self, inp, now) ==
    AuthorizationPolicySendOutcome(self, inp.ctx, inp.request, <<"Transport">>, now).request

\* the operation op kept what it owns: its Context is the one it built, its
\* Request is the one it built until its own pass through the policy, and
\* what it sent is what it sends alone
OwnsItsRequest(self, op) ==
    /\ op.ctx = op.input.ctx
    /\ op.now = NoOutcome => op.request = op.input.request /\ op.sent = NoOutcome
    /\ op.sent # NoOutcome => op.sent = SentAlone(self, op.input, op.now)

\* C20: under every interleaving of two operations that run through one
\* client, the policies of the client stay as they were built, each operation
\* sends the request (method, URI and headers) it would have sent had it run
\* alone at the same instant, its Context stays the one it built, and a step
\* taken for one operation leaves the other operation as it was
C20_OperationsDoNotInterfere ==
    /\ [](/\ client.pipeline = new_pipeline_from_options(authorization_token)
          /\ \A i \in Operations :
                OwnsItsRequest(client.pipeline.per_retry_policies[1], ops[i]))
    /\ [][/\ client' = client
          /\ \A i \in Operations : ops'[i] # ops[i] =>
                \A j \in Operations \ {i} : ops'[j] = ops[j]]_vars

\* both operations sent their requests, the second one signed its request
\* with the primary key while the first one was between the policy and the
\* transport, and the two requests differ
C20_Witness ==
    /\ authorization_token.kind = "Primary"
    /\ ops[1].sent # NoOutcome /\ ops[2].sent # NoOutcome
    /\ ops[1].sent # ops[2].sent
    /\ ops[1].now # ops[2].now
    /\ ops[2].input # ops[1].input

\* the text of s before its first newline
FirstLine(s) ==
    SubSeq(s, 1, (CHOOSE i \in 1..(Len(s) + 1) :
                      /\ (i = Len(s) + 1 \/ s[i] = 10)
                      /\ \A j \in 1..(i - 1) : s[j] # 10) - 1)

\* C21: for every method, one of the nine standard ones or an extension, the
\* first line of the string-to-sign is the method's verb in lower case
C21_FirstLineIsTheVerbInLowerCase ==
    sts # NoOutcome => FirstLine(sts) = ToLowercase(args.http_method)

\* the path component of a request URI with its leading "/" dropped: the
\* path and query up to the first "?"
PathComponentOf(uri) ==
    UriPathFrom(PathAndQueryToString(
        SubSeq(path_and_query(uri).v, 1, IndexOfAny(path_and_query(uri).v, {Ord("?")}, 1) - 1)))

\* C22: the resource link that AuthorizationPolicy::send signs is the one of
\* the path component of the request URI, so a query string changes neither
\* the resource link nor the string-to-sign
C22_ResourceLinkIgnoresTheQuery ==
    \A i \in 1..Len(handed) :
        /\ generate_resource_link(UriPathOf(handed[i].before.uri).v)
              = generate_resource_link(PathComponentOf(handed[i].before.uri).v)
        /\ string_to_sign(handed[i].before.method, ResourceTypeOf(ctx).v,
                          generate_resource_link(UriPathOf(handed[i].before.uri).v).v,
                          FormatTime(handed[i].now))
              = string_to_sign(handed[i].before.method, ResourceTypeOf(ctx).v,
                               generate_resource_link(PathComponentOf(handed[i].before.uri).v).v,
                               FormatTime(handed[i].now))

\* the value a request carries under the header name, when it carries one
\* value only
OnlyValue(req, name) == HeaderValues(req.headers, name)[1][2]

\* C23: on every pass of AuthorizationPolicy::send the request that reaches
\* the next policy carries one date header, the timestamp taken in that pass,
\* and one Authorization header, computed from that same timestamp (compared
\* for the latest pass, which every pass is when it is made); when a later
\* pass takes another timestamp, neither the date nor (for a primary key) the
\* Authorization value of the earlier pass is left in the request
C23_DateHeaderIsTheSignedDate ==
    \A i \in 1..Len(handed) :
        /\ HeaderValues(handed[i].after.headers, HEADER_DATE)
              = <<<<HEADER_DATE, FormatTime(handed[i].now)>>>>
        /\ Len(HeaderValues(handed[i].after.headers, AUTHORIZATION)) = 1
        /\ i = Len(handed) =>
              OnlyValue(handed[i].after, AUTHORIZATION)
                 = generate_authorization(authorization_token, handed[i].before.method,
                       ResourceTypeOf(ctx).v,
                       generate_resource_link(UriPathOf(handed[i].before.uri).v).v,
                       OnlyValue(handed[i].after, HEADER_DATE)).ret
        /\ (i > 1 /\ handed[i].now # handed[i - 1].now) =>
              /\ \A k \in 1..Len(handed[i].after.headers) :
                    handed[i].after.headers[k][2] # OnlyValue(handed[i - 1].after, HEADER_DATE)
              /\ authorization_token.kind = "Primary" =>
                    \A k \in 1..Len(handed[i].after.headers) :
                        handed[i].after.headers[k][2]
                            # OnlyValue(handed[i - 1].after, AUTHORIZATION)

\* a second pass signed, with the primary key and at another instant, the
\* request that the first pass had signed
C23_Witness ==
    /\ authorization_token.kind = "Primary"
    /\ Len(handed) = 2
    /\ handed[2].before = handed[1].after
    /\ handed[2].now # handed[1].now
    /\ OnlyValue(handed[2].after, HEADER_DATE) = FormatTime(handed[2].now)

\* C24: a pass of AuthorizationPolicy::send that signed the request calls the
\* first policy of next, once: the chain moves on by one position, the callee
\* gets the Context untouched, the signed request and the rest of next, and
\* what the callee's side of the chain returns is the result of the call,
\* which no policy changes afterwards
C24_DelegatesOnceToNext ==
    [][/\ Len(handed') = Len(handed) + 1 =>
             /\ chain[here] = "AuthorizationPolicy"
             /\ handed'[Len(handed')].next = SubSeq(chain, here + 1, Len(chain))
             /\ handed'[Len(handed')].next # <<>>
             /\ here' = here + 1
             /\ pc' = "sending"
             /\ ctx' = ctx
             /\ request' = handed'[Len(handed')].after
             /\ result' = result
             /\ chain' = chain
       /\ here' \in {here, here + 1}
       /\ pc \in {"returned", "panicked"} => (result' = result /\ pc' = pc)]_vars

\* the Transport, called by the second of two passes of the policy, returned
\* a response, which is the result of the whole call
C24_Witness ==
    /\ Len(handed) = 2
    /\ pc = "returned"
    /\ here = Len(chain)
    /\ result = Ok([status |-> 503])

\* C26: the step in which AuthorizationPolicy::send returns InvalidTailPolicy
\* changes neither the request (its headers, with any date, version and
\* Authorization values it came with, its method and its URI) nor the Context,
\* and hands nothing on
C26_InvalidTailPolicyChangesNothing ==
    [][(/\ result' # result
        /\ result'.tag = "err"
        /\ result'.error = "InvalidTailPolicy") =>
            /\ chain[here] = "AuthorizationPolicy"
            /\ here = Len(chain)
            /\ request' = request
            /\ ctx' = ctx
            /\ handed' = handed
            /\ here' = here]_vars

\* InvalidTailPolicy was returned for a request that still carries the two
\* stale values of each signed header, with a Context without resource_type
C26_Witness ==
    /\ pc = "returned"
    /\ result = InvalidTailPolicy(AuthorizationPolicy(authorization_token))
    /\ request.headers = StaleHeaders
    /\ get_from_bag(ctx, "resource_type") = None

\* the headers of a request other than the three that send sets, in order
OtherHeaders(req) ==
    SelectSeq(req.headers, LAMBDA h : h[1] \notin {HEADER_DATE, HEADER_VERSION, AUTHORIZATION})

\* C29: the request that AuthorizationPolicy::send hands to the next policy
\* differs from the one it was given in its date, version and Authorization
\* headers only (method, URI and every other header are the same, in the same
\* order), and the step leaves the Context as it was
C29_OnlySignedHeadersChange ==
    /\ [](\A i \in 1..Len(handed) :
             /\ [handed[i].after EXCEPT !.headers = handed[i].before.headers]
                   = handed[i].before
             /\ OtherHeaders(handed[i].after) = OtherHeaders(handed[i].before))
    /\ [][Len(handed') = Len(handed) + 1 =>
             /\ ctx' = ctx
             /\ handed'[Len(handed')].before = request
             /\ handed'[Len(handed')].after = request']_vars

\* a request with a content-type header and stale values of the signed
\* headers was signed and handed on, and the bag still holds its two items
C29_Witness ==
    /\ Len(handed) >= 1
    /\ handed[1].before.headers = StaleHeaders
    /\ handed[1].after.headers # StaleHeaders
    /\ OtherHeaders(handed[1].after) = <<OtherHeader>>
    /\ get_from_bag(ctx, "request_id") # None

(***************************************************************************)
(* SpecToken: CosmosClient::auth_token is called any number of times on a   *)
(* client before create_database runs.  auth_token takes &mut self, so no   *)
(* call of it overlaps an operation.                                        *)
(***************************************************************************)

\* the tokens handed to CosmosClient::auth_token
ReplacementTokens == {Resource(Str("type=resource&ver=1&sig=other")), Primary(TestKey00)}

InitToken ==
    /\ InitClient
    /\ client \in {CosmosClient_new(Account, t) : t \in ChainTokens}

\* a faulty variant of SetAuthToken: the pipeline is rebuilt around the new
\* token
SetAuthTokenRebuildingPipeline ==
    /\ pc = "ready"
    /\ \E new_token \in ReplacementTokens :
          /\ new_token # client.auth_token
          /\ client' = [client EXCEPT !.auth_token = new_token,
                                      !.pipeline = new_pipeline_from_options(new_token)]
          /\ authorization_token' = new_token
    /\ UNCHANGED <<chain, request, ctx, here, pc, result, handed, calls, attempts,
                   ops, linkVars, signVars>>

\* CosmosClient::auth_token(&mut self, auth_token): self.auth_token = auth_token
SetAuthToken ==
    /\ pc = "ready"
    /\ \E new_token \in ReplacementTokens :
          /\ new_token # client.auth_token
          /\ client' = [client EXCEPT !.auth_token = new_token]
          /\ authorization_token' = authorization_token
    /\ UNCHANGED <<chain, request, ctx, here, pc, result, handed, calls, attempts,
                   ops, linkVars, signVars>>

NextToken ==
    \/ SetAuthToken
    \/ CreateDatabase
    \/ AuthorizationPolicySend
    \/ TransportSend
    \/ PipelineReturns
    \/ ValidateCreated
    \/ TryFromResponse

SpecToken == InitToken /\ [][NextToken]_vars

C28_BothPathsSignTheSameLink ==
    \A i \in 1..Len(handed) :
        /\ generate_resource_link(UriPathOf(handed[i].before.uri).v)
              = generate_resource_link(Str("dbs"))
        /\ generate_resource_link(UriPathOf(handed[i].before.uri).v) = Ok(<<>>)
        /\ string_to_sign(handed[i].before.method, ResourceTypeOf(ctx).v,
                          generate_resource_link(UriPathOf(handed[i].before.uri).v).v,
                          FormatTime(handed[i].now))
              = string_to_sign(POST, "Databases", generate_resource_link(Str("dbs")).v,
                               FormatTime(handed[i].now))

\* every byte of p is ASCII
IsAscii(p) == \A i \in 1..Len(p) : p[i] < 128

\* C30: on an ASCII path, the empty one and those shorter than every keyword
\* included, generate_resource_link returns (no slice is out of range and
\* end_offset - 1 is never below zero), and what it returns is a prefix of
\* the path
C30_TotalOnAsciiPaths ==
    (link # NoOutcome /\ IsAscii(u)) =>
        /\ ~IsPanic(link)
        /\ link.tag = "ok"
        /\ Len(link.v) <= Len(u)
        /\ link.v = SubSeq(u, 1, Len(link.v))

\* the path "/dbs": the keyword starts at offset 1, so the byte before it is
\* the first of the path, and the link is the empty prefix
C30_Witness ==
    /\ u = Str("/dbs")
    /\ link = Ok(<<>>)

====
